---- MODULE Spec2Model ----
(***************************************************************************)
(* Verification model of the Videeo.ai stage-1 pipeline:                   *)
(*   services/job_manager.py   JobManager (the in-memory job store)        *)
(*   pipeline/orchestrator.py  PipelineOrchestrator (stages, _with_retry)  *)
(*   pipeline/image_generator.py, pipeline/video_generator.py              *)
(*                             task submission and the poll loops          *)
(*   pipeline/video_stitcher.py, pipeline/caption_burner.py                *)
(*                             the two encoder stages, as called           *)
(*   pipeline/script_generator.py  the scenes of the backend's answer      *)
(*   main.py                   GET /status and the rate limiter            *)
(* Strings of the program are sequences of tokens, so that Python's string *)
(* concatenation is \o.  An Optional value is <<>> (None) or <<v>>.        *)
(***************************************************************************)
EXTENDS Integers, Sequences, FiniteSets, TLC

VARIABLES
    jobs,           \* JobManager._jobs: job id -> JobState
    pc,             \* position of the pipeline task (or of the operation under test)
    stage,          \* the stage run_pipeline is in (1..6); 0: _with_retry called on its own
    sceneIdx,       \* i of the scene loop of _stage_video_generation
    sceneVideos,    \* the local list scene_videos of _stage_video_generation
    imagePrompt,    \* what generate_image_prompt returned: "llm", "default", "no_key"
    cfgMaxRetries,  \* settings.max_retries
    maxRetriesArg,  \* the max_retries argument of _with_retry (Optional)
    attempt,        \* attempt of _with_retry's for loop
    lastError,      \* last_error of _with_retry (a message; <<>> is None)
    opResult,       \* value the operation returned (Optional)
    pollAttempt,    \* attempt of _poll_for_result's for loop
    taskId,         \* task id the current poll loop queries (0: none)
    calls,          \* history: invocations of func() in the current _with_retry
    waits,          \* history: the sleeps of the current _with_retry, in order
    submits,        \* history: tasks submitted in the current _with_retry
    opFailSeen,     \* history: the message of the first provider failure seen in the current _with_retry (<<>>: none)
    pollFailSeen,   \* history: a failure signal was seen in the current poll loop
    pollSuccessSeen,\* history: a success flag was seen in the current poll loop
    pollSleeps,     \* history: the sleeps of the current poll loop
    queries,        \* history: the status queries sent in the current _with_retry
    lastSignal,     \* history: what the answer to the query just made signals ("none": the last step made no query)
    extFailed,      \* history: some external call did not succeed at once
    failedStage,    \* history: the stage whose failure ended the pipeline (0: none)
    raised,         \* history: the error the failing operation raised out of _with_retry
    media,          \* the locals of the crossfade planner and of the caption timing loop
    caption,        \* one caption on its way from Scene.dialogue to the rendered overlay
    files,          \* the files under settings.temp_dir and settings.output_dir, and each stitcher's position
    ret,            \* the JobManager method called last, its arguments and what it returned
    detached,       \* the JobState a delete_job took out of the store while the pipeline task still holds it (Optional)
    limiter         \* ip_request_history of the rate limiter, the clock it reads, and a log of what it answered

vars == <<jobs, pc, stage, sceneIdx, sceneVideos, imagePrompt, cfgMaxRetries,
          maxRetriesArg, attempt, lastError, opResult, pollAttempt, taskId,
          calls, waits, submits, opFailSeen, pollFailSeen, pollSuccessSeen,
          pollSleeps, queries, lastSignal, extFailed, failedStage, raised, media,
          caption, files, ret, detached, limiter>>

---------------------------------------------------------------------------
(* Bounds of the model *)

\* scenes a script may hold (GenerateRequest allows 1..10)
MaxScenes == 2
\* max_attempts of ImageGenerator._poll_for_result (60 in the program)
ImageMaxAttempts == 2
\* max_attempts passed to VideoGenerator._poll_for_result (120 in the program)
VideoMaxAttempts == 2
\* largest settings.max_retries configured (2 by default)
MaxCfgRetries == 2
\* largest max_retries argument passed to _with_retry on its own
MaxRetriesArg == 2
\* clips handed to the stitcher and scenes handed to the caption burner on their own
MaxClips == 3
\* characters of a caption handed to _escape_text (Scene.dialogue allows 100)
MaxCaptionLen == 3
\* requests sent to the application in one run of the rate limiter
MaxRequests == 6
\* steps the clock makes in one run of the rate limiter
MaxTicks == 2

---------------------------------------------------------------------------
(* models/schemas.py *)

PENDING == "pending"
GENERATING_SCRIPT == "generating_script"
GENERATING_IMAGES == "generating_images"
GENERATING_VIDEOS == "generating_videos"
ASSEMBLING_VIDEO == "assembling_video"
ADDING_CAPTIONS == "adding_captions"
COMPLETE == "complete"
ERROR == "error"

\* the order of the statuses in JobStatus, used by the pipeline front to back
StatusOrder ==
    <<PENDING, GENERATING_SCRIPT, GENERATING_IMAGES, GENERATING_VIDEOS,
      ASSEMBLING_VIDEO, ADDING_CAPTIONS, COMPLETE>>

NoneStr == "None"
None == <<>>
Some(v) == <<v>>

\* A JobState as create_job builds it; its domain is the set of declared fields
\* (timestamps, prompt, aspect_ratio and retry_count are never read by the pipeline).
NewJobState(scene_count) ==
    [ status              |-> PENDING,
      progress_percent    |-> 0,
      current_step        |-> <<"Job created, waiting to start...">>,
      scene_count         |-> scene_count,
      script              |-> None,
      reference_image_url |-> NoneStr,
      scene_videos        |-> <<>>,
      video_url           |-> NoneStr,
      duration_seconds    |-> None,
      error_message       |-> None ]

\* VideoScript with scenes numbered 1..n, no clip generated yet
NewScript(n) ==
    [ character_description |-> "character",
      scenes |-> [k \in 1..n |-> [scene_number |-> k, video_url |-> NoneStr]] ]

---------------------------------------------------------------------------
(* services/job_manager.py *)

jid == "vid_1"

GetJob(store, id) == IF id \in DOMAIN store THEN Some(store[id]) ELSE None

\* update_job that stores a record for an id it does not find
UpdateJobUpsert(store, id, patch) ==
    IF id \notin DOMAIN store
    THEN [i \in DOMAIN store \cup {id} |-> IF i = id THEN patch ELSE store[i]]
    ELSE [store EXCEPT ![id] =
            [f \in DOMAIN @ |-> IF f \in DOMAIN patch THEN patch[f] ELSE @[f]]]

\* update_job: a supplied name is set when the record has that attribute
\* (hasattr); any other name is dropped; an absent job is left absent.
UpdateJob(store, id, patch) ==
    IF id \notin DOMAIN store
    THEN store
    ELSE [store EXCEPT ![id] =
            [f \in DOMAIN @ |-> IF f \in DOMAIN patch THEN patch[f] ELSE @[f]]]

\* error_message[:50]: the cut keeps the leading token of the message
Head50(msg) == IF msg = <<>> THEN <<>> ELSE <<Head(msg)>>

\* set_error leaving the status as it was
SetErrorNoStatus(store, id, error_message) ==
    UpdateJob(store, id,
        [ error_message |-> error_message,
          current_step  |-> <<"Error: ">> \o Head50(error_message) \o <<"...">> ])

\* set_error that also drops what the job had produced
SetErrorReset(store, id, error_message) ==
    UpdateJob(store, id,
        [ status        |-> ERROR,
          error_message |-> error_message,
          script        |-> None,
          current_step  |-> <<"Error: ">> \o Head50(error_message) \o <<"...">> ])

SetError(store, id, error_message) ==
    UpdateJob(store, id,
        [ status        |-> ERROR,
          error_message |-> error_message,
          current_step  |-> <<"Error: ">> \o Head50(error_message) \o <<"...">> ])

\* set_complete leaving the progress as it was
SetCompleteStatusOnly(store, id, video_url, duration_seconds) ==
    UpdateJob(store, id,
        [ status           |-> COMPLETE,
          current_step     |-> <<"Video generation complete!">>,
          video_url        |-> video_url,
          duration_seconds |-> Some(duration_seconds) ])

SetComplete(store, id, video_url, duration_seconds) ==
    UpdateJob(store, id,
        [ status           |-> COMPLETE,
          progress_percent |-> 100,
          current_step     |-> <<"Video generation complete!">>,
          video_url        |-> video_url,
          duration_seconds |-> Some(duration_seconds) ])

\* no method of the store has been called
NoCall == [op |-> "none"]

\* a delete that answers True and removes nothing
DeleteJobKept(store, id) == store

\* del self._jobs[job_id]
DeleteJob(store, id) == [i \in DOMAIN store \ {id} |-> store[i]]

---------------------------------------------------------------------------
(* Answers of the external collaborators *)

NumStr(k) == <<"0", "1", "2", "3", "4", "5", "6", "7", "8", "9", "10">>[k + 1]

ClipUrl(i) == <<"clip_1", "clip_2", "clip_3", "clip_4", "clip_5">>[i + 1]

RefImageUrl == "reference_image"

\* the chat-completion answer to ScriptGenerator.generate
ScriptResponses ==
    [kind : {"ok"}, n : 0..MaxScenes]
    \cup [kind : {"http_error", "bad_json", "missing_key", "invalid_scene", "network_error"},
          n : {0}]

\* the answer to a createTask / veo/generate request
SubmitResponses ==
    [transport : {"ok"}, code : {"200", "500"}, hasTaskId : BOOLEAN]
    \cup [transport : {"http_error", "network_error", "bad_json"},
          code : {"200"}, hasTaskId : {FALSE}]

\* the answer to a veo/record-info query: code is the top-level "code",
\* successFlag is data.successFlag == 1, taskError is "data.errorCode is present
\* or data.errorMessage is non-empty", hasUrl is "one of the known shapes holds a URL"
VideoPollResponses ==
    [transport : {"ok"}, code : {"absent", "200", "500"}, successFlag : BOOLEAN,
     taskError : BOOLEAN, hasUrl : BOOLEAN]
    \cup [transport : {"http_404", "http_error", "network_error", "bad_json"},
          code : {"absent"}, successFlag : {FALSE}, taskError : {FALSE}, hasUrl : {FALSE}]

\* the answer to a jobs/recordInfo query: state is the lower-cased data.state
ImagePollResponses ==
    [transport : {"ok"}, code : {"absent", "200", "500"},
     state : {"success", "failed", "error", "pending", "", "unknown"}, hasUrl : BOOLEAN]
    \cup [transport : {"http_404", "http_error", "network_error", "bad_json"},
          code : {"absent"}, state : {""}, hasUrl : {FALSE}]

\* seconds ffmpeg reports for a standardized clip; 4 also stands for the fallback
FallbackDuration == 4
Durations == {FallbackDuration, 7}

\* what the downloads and the two ffmpeg passes of stitch_with_crossfade do
StitchResponses(n) ==
    [kind : {"ok"}, durations : [1..n -> Durations]]
    \cup [kind : {"download_error", "ffmpeg_error"}, durations : {<<>>}]

\* what ffmpeg does in burn_captions
CaptionResponses == {"ok", "ffmpeg_error"}

\* what get_video_duration returns (0: both probes failed)
MeasuredDurations == {0, 13}

---------------------------------------------------------------------------
(* The operations run under _with_retry.  Each returns                      *)
(*   to     "op_ok" (returned), "poll" (task submitted), "op_raised"        *)
(*   result the value returned, error the message raised,                   *)
(*   clean  no external call of this invocation failed                      *)

Returned(v, clean) == [to |-> "op_ok", result |-> Some(v), error |-> None, clean |-> clean]
\* a generate that returns once its task is created, without waiting for it
SubmittedNoWait == [to |-> "op_ok", result |-> Some(ClipUrl(0)), error |-> None, clean |-> TRUE]
Submitted == [to |-> "poll", result |-> None, error |-> None, clean |-> TRUE]
Raised(msg, clean) == [to |-> "op_raised", result |-> None, error |-> msg, clean |-> clean]

\* ScriptGenerator.generate
ScriptGenerate(resp) ==
    CASE resp.kind = "ok" -> Returned(NewScript(resp.n), TRUE)
      [] resp.kind = "http_error" -> Raised(<<"Script generation failed: 500">>, FALSE)
      [] resp.kind = "bad_json" -> Raised(<<"Failed to parse script response">>, FALSE)
      [] resp.kind = "missing_key" -> Raised(<<"Invalid script response: missing 'scenes'">>, FALSE)
      [] resp.kind = "invalid_scene" -> Raised(<<"ValidationError">>, FALSE)
      [] OTHER -> Raised(<<"httpx.RequestError">>, FALSE)

\* ImageGenerator._create_task and VideoGenerator._create_video_task
CreateTask(kind, resp) ==
    CASE resp.transport = "http_error" ->
            Raised(<<kind, " generation failed: 500 - body">>, FALSE)
      [] resp.transport = "network_error" -> Raised(<<"httpx.RequestError">>, FALSE)
      [] resp.transport = "bad_json" -> Raised(<<"JSONDecodeError">>, FALSE)
      [] OTHER -> IF resp.hasTaskId THEN Submitted
                  ELSE Raised(<<"No task ID in response">>, FALSE)

\* the lambda of _stage_image_generation: image_prompts["image_prompt"], then generate
ImageLambda(prompt, resp) ==
    IF prompt = "no_key" THEN Raised(<<"'image_prompt'">>, TRUE)
    ELSE CreateTask("Image", resp)

\* _process_ffmpeg_sync returns the path alone for one clip, (path, durations) otherwise
StitchedPath == <<"outputs/video_", jid, ".mp4">>
StitchReturn(n, durations) ==
    IF n = 1 THEN [shape |-> "str", path |-> StitchedPath, durations |-> <<>>]
    ELSE [shape |-> "tuple", path |-> StitchedPath, durations |-> durations]

\* stitch_result[k] of _stage_video_stitching: an item of the tuple, or a character of the string
Subscript(r, k) ==
    IF r.shape = "str" THEN (IF k = 0 THEN <<"o">> ELSE <<"u">>)
    ELSE (IF k = 0 THEN r.path ELSE r.durations)

\* VideoStitcher.stitch_with_crossfade
StitchWithCrossfade(video_urls, resp) ==
    CASE resp.kind = "download_error" -> Raised(<<"httpx.HTTPStatusError">>, FALSE)
      [] resp.kind = "ffmpeg_error" -> Raised(<<"CalledProcessError">>, FALSE)
      [] OTHER -> Returned(StitchReturn(Len(video_urls), resp.durations), TRUE)

CaptionedPath == <<"outputs/final_", jid, "_captioned.mp4">>

\* the lambda of _stage_caption_burnin: its arguments are read from the job record
\* before burn_captions is called
CaptionLambda(job, resp) ==
    IF "scene_durations" \notin DOMAIN job
    THEN Raised(<<"'JobState' object has no attribute 'scene_durations'">>, TRUE)
    ELSE IF resp = "ok" THEN Returned(CaptionedPath, TRUE)
         ELSE Raised(<<"CalledProcessError">>, FALSE)

\* an operation handed to _with_retry on its own: call number c succeeds or raises
PlainOperation(c, ok) ==
    IF ok THEN Returned("value", TRUE) ELSE Raised(<<"error of call ", NumStr(c)>>, FALSE)

---------------------------------------------------------------------------
(* The poll loops: one pass of the for loop's try body, then its except clauses *)

\* a loop that takes a finished result for "not ready yet"
PollReturnIgnored(url) == [do |-> "sleep", exc |-> "", msg |-> <<>>, url |-> NoneStr]
PollReturn(url) == [do |-> "return", exc |-> "", msg |-> <<>>, url |-> url]
PollSleep == [do |-> "sleep", exc |-> "", msg |-> <<>>, url |-> NoneStr]
PollRaise(exc, msg) == [do |-> "raise", exc |-> exc, msg |-> msg, url |-> NoneStr]

\* VideoGenerator._poll_for_result, lines 215-327
VideoPollBody(resp, url) ==
    CASE resp.transport \in {"http_404", "http_error"} -> PollRaise("HTTPStatusError", <<"http status">>)
      [] resp.transport = "network_error" -> PollRaise("RequestError", <<"network">>)
      [] resp.transport = "bad_json" -> PollRaise("Exception", <<"JSONDecodeError">>)
      [] OTHER ->
            IF resp.code \notin {"absent", "200"}
            THEN PollRaise("Exception", <<"Video generation failed: ", resp.code, " - msg">>)
            ELSE IF resp.successFlag
            THEN (IF resp.hasUrl THEN PollReturn(url)
                  ELSE PollRaise("Exception", <<"No video URL in completed response">>))
            ELSE IF resp.taskError
            THEN PollRaise("Exception", <<"Video generation failed: ", "provider error">>)
            ELSE PollSleep

\* ImageGenerator._poll_for_result, lines 128-223
ImagePollBody(resp, url) ==
    CASE resp.transport \in {"http_404", "http_error"} -> PollRaise("HTTPStatusError", <<"http status">>)
      [] resp.transport = "network_error" -> PollRaise("RequestError", <<"network">>)
      [] resp.transport = "bad_json" -> PollRaise("Exception", <<"JSONDecodeError">>)
      [] OTHER ->
            IF resp.code \notin {"absent", "200"}
            THEN PollRaise("Exception", <<"Image generation failed: ", resp.code, " - msg">>)
            ELSE IF resp.state = "success"
            THEN (IF resp.hasUrl THEN PollReturn(url)
                  ELSE PollRaise("Exception", <<"No image URL in completed response">>))
            ELSE IF resp.state \in {"failed", "error"}
            THEN PollRaise("Exception", <<"Image generation failed: ", "provider error">>)
            ELSE PollSleep

\* except clauses that let the error out of the loop
PollExceptReraise(b) == b

\* the except clauses of both loops (HTTPStatusError, RequestError, Exception):
\* each one logs, sleeps one interval and lets the for loop go on
PollExcept(b) == IF b.do = "raise" THEN PollSleep ELSE b

PollBody(s, resp) ==
    IF s = 2 THEN ImagePollBody(resp, RefImageUrl) ELSE VideoPollBody(resp, ClipUrl(sceneIdx))

PollResponses(s) == IF s = 2 THEN ImagePollResponses ELSE VideoPollResponses

PollMaxAttempts(s) == IF s = 2 THEN ImageMaxAttempts ELSE VideoMaxAttempts

\* the raise after the for loop
PollTimeout(s) ==
    IF s = 2 THEN <<"Image generation timed out">> ELSE <<"Video generation timed out">>

\* what a status answer signals (read off the answer, whatever the loop does with it)
ProviderErrorCode(resp) == resp.transport = "ok" /\ resp.code \notin {"absent", "200"}
SuccessFlag(s, resp) ==
    /\ resp.transport = "ok"
    /\ ~ProviderErrorCode(resp)
    /\ IF s = 2 THEN resp.state = "success" ELSE resp.successFlag
TaskFailure(s, resp) ==
    /\ resp.transport = "ok"
    /\ ~ProviderErrorCode(resp)
    /\ ~SuccessFlag(s, resp)
    /\ IF s = 2 THEN resp.state \in {"failed", "error"} ELSE resp.taskError
FailureSignal(s, resp) == ProviderErrorCode(resp) \/ TaskFailure(s, resp)
MalformedSuccess(s, resp) == SuccessFlag(s, resp) /\ ~resp.hasUrl
UnknownState(s, resp) == s = 2 /\ resp.transport = "ok" /\ resp.state = "unknown"

\* the kind of a status answer
Signal(s, resp) ==
    CASE resp.transport # "ok" -> resp.transport
      [] ProviderErrorCode(resp) -> "error_code"
      [] MalformedSuccess(s, resp) -> "malformed"
      [] SuccessFlag(s, resp) -> "success_result"
      [] TaskFailure(s, resp) -> "task_failed"
      [] UnknownState(s, resp) -> "unknown"
      [] OTHER -> "pending"

---------------------------------------------------------------------------
(* PipelineOrchestrator._with_retry *)

\* max_retries = max_retries or settings.max_retries
EffectiveMaxRetries(arg, cfg) == IF arg = None \/ arg[1] = 0 THEN cfg ELSE arg[1]

\* a linear back-off, 2 * attempt
BackoffLinear(a) == 2 * a

\* wait_time = 2 ** attempt
Backoff(a) == 2 ^ a

\* a loop that goes round once more than max_retries allows
RetryAgainOnceMore(a, maxr) == a <= maxr

\* if attempt < max_retries: sleep and go round again; else leave the loop and raise
RetryAgain(a, maxr) == a < maxr

\* raise last_error
RaisedError(operation_name, attempts, last_error) == last_error

---------------------------------------------------------------------------
(* PipelineOrchestrator: the stages *)

\* the opening updates with stage 2 announcing the status of stage 3
StageBeginPatchSkip(s) ==
    CASE s = 1 -> [status |-> GENERATING_SCRIPT, progress_percent |-> 5,
                   current_step |-> <<"Generating video script...">>]
      [] s = 2 -> [status |-> GENERATING_VIDEOS, progress_percent |-> 17,
                   current_step |-> <<"Generating reference character image...">>]
      [] s = 3 -> [status |-> GENERATING_VIDEOS, progress_percent |-> 27,
                   current_step |-> <<"Generating scene videos...">>]
      [] s = 4 -> [status |-> ASSEMBLING_VIDEO, progress_percent |-> 72,
                   current_step |-> <<"Stitching videos together...">>]
      [] s = 5 -> [status |-> ADDING_CAPTIONS, progress_percent |-> 87,
                   current_step |-> <<"Adding captions...">>]
      [] OTHER -> [progress_percent |-> 97, current_step |-> <<"Uploading to CDN...">>]

\* the update_job call that opens _stage_<s>
StageBeginPatch(s) ==
    CASE s = 1 -> [status |-> GENERATING_SCRIPT, progress_percent |-> 5,
                   current_step |-> <<"Generating video script...">>]
      [] s = 2 -> [status |-> GENERATING_IMAGES, progress_percent |-> 17,
                   current_step |-> <<"Generating reference character image...">>]
      [] s = 3 -> [status |-> GENERATING_VIDEOS, progress_percent |-> 27,
                   current_step |-> <<"Generating scene videos...">>]
      [] s = 4 -> [status |-> ASSEMBLING_VIDEO, progress_percent |-> 72,
                   current_step |-> <<"Stitching videos together...">>]
      [] s = 5 -> [status |-> ADDING_CAPTIONS, progress_percent |-> 87,
                   current_step |-> <<"Adding captions...">>]
      [] OTHER -> [progress_percent |-> 97, current_step |-> <<"Uploading to CDN...">>]

\* the scene progress without the 27 the stage starts from
SceneProgressNoBase(i, n) == (i * 43) \div n

\* int(27 + (i * progress_per_scene)) with progress_per_scene = 43 / total_scenes;
\* for 0 < i < n <= 42 the quotient i*43/n is no integer, so the float rounds as the floor
SceneProgress(i, n) == 27 + ((i * 43) \div n)

ScenePatch(i, n) ==
    [progress_percent |-> SceneProgress(i, n),
     current_step |-> <<"Generating scene ", NumStr(i + 1), " of ", NumStr(n), "...">>]

\* the update_job call that closes _stage_<s>
StageEndPatch(s, result, videos, d) ==
    CASE s = 1 -> [script |-> Some(result), progress_percent |-> 15,
                   current_step |-> <<"Script generated: ", NumStr(Len(result.scenes)), " scenes">>]
      [] s = 2 -> [reference_image_url |-> result, progress_percent |-> 25,
                   current_step |-> <<"Reference image generated">>]
      [] s = 3 -> [scene_videos |-> videos, progress_percent |-> 70,
                   current_step |-> <<"All ", NumStr(Len(videos)), " scene videos generated">>]
      [] s = 4 -> [video_url |-> Subscript(result, 0), scene_durations |-> Subscript(result, 1),
                   progress_percent |-> 85, current_step |-> <<"Videos stitched successfully">>]
      [] OTHER -> [video_url |-> result, duration_seconds |-> Some(d),
                   progress_percent |-> 95, current_step |-> <<"Captions added successfully">>]

\* operation_name passed to _with_retry
OperationName(s, i) ==
    CASE s = 1 -> <<"Script generation">>
      [] s = 2 -> <<"Image generation">>
      [] s = 3 -> <<"Scene ", NumStr(i + 1), " video generation">>
      [] s = 4 -> <<"Video stitching">>
      [] s = 5 -> <<"Caption burning">>
      [] OTHER -> <<"operation">>

\* a stage error that drops the cause
StageFailMessageGeneric(s, i, e) == <<"Pipeline failed">>

\* raise Exception(f"<stage> failed: {e}") of each stage's except clause
StageFailMessage(s, i, e) ==
    CASE s = 1 -> <<"Script generation failed: ">> \o e
      [] s = 2 -> <<"Image generation failed: ">> \o e
      [] s = 3 -> <<"Scene ", NumStr(i + 1), " video generation failed: ">> \o e
      [] s = 4 -> <<"Video stitching failed: ">> \o e
      [] s = 5 -> <<"Caption burning failed: ">> \o e
      [] OTHER -> <<"Upload failed: ">> \o e

\* a pipeline that goes on with the stage after _handle_error
AfterErrorContinue == "stage_begin"

\* where run_pipeline goes after its except clause has called _handle_error
AfterError == "done"

\* where a stage's opening update leads
AfterStageBegin(s) ==
    CASE s = 2 -> "image_prompt"
      [] s = 3 -> "scene_begin"
      [] s = 6 -> "finalize"
      [] OTHER -> "op_call"

\* len(job.script.scenes)
TotalScenes(job) == Len(job.script[1].scenes)

\* the JobState a stage's local job refers to: the stored record, or the object
\* a delete_job has taken out of the store since the stage fetched it
TaskJob == IF jid \in DOMAIN jobs THEN jobs[jid] ELSE detached[1]

\* a scene loop that keeps the clip in its list only
BackFillSkipped(job, i, video_url) == job

\* scene.video_url = video_url, for scene i of the script of job
BackFill(job, i, video_url) ==
    [job EXCEPT !.script = Some([@[1] EXCEPT !.scenes[i + 1].video_url = video_url])]

\* the attribute a stage reads first from the job it has fetched
FirstRead(s) ==
    CASE s \in {2, 3} -> "script"
      [] s \in {4, 5} -> "job_id"
      [] OTHER -> "video_url"

\* the AttributeError of that read when get_job has answered None
NoneJobError(s) == <<"'NoneType' object has no attribute '", FirstRead(s), "'">>

\* what the outside world may answer to one invocation of the operation of stage s
CallResponses(s) ==
    CASE s = 0 -> BOOLEAN
      [] s = 1 -> ScriptResponses
      [] s \in {2, 3} -> SubmitResponses
      [] s = 4 -> StitchResponses(Len(TaskJob.scene_videos))
      [] OTHER -> CaptionResponses

\* the outcome of one invocation of the operation of stage s, answered r
Call(s, r) ==
    CASE s = 0 -> PlainOperation(calls + 1, r)
      [] s = 1 -> ScriptGenerate(r)
      [] s = 2 -> ImageLambda(imagePrompt, r)
      [] s = 3 -> CreateTask("Video", r)
      [] s = 4 -> StitchWithCrossfade(TaskJob.scene_videos, r)
      [] OTHER -> CaptionLambda(TaskJob, r)

\* the kind of the answer to a task-creation request
SubmitSignal(resp) ==
    CASE resp.transport # "ok" -> "submit_" \o resp.transport
      [] resp.code = "200" /\ resp.hasTaskId -> "submit_ok"
      [] resp.code = "200" -> "submit_no_id"
      [] resp.hasTaskId -> "submit_error_code_with_id"
      [] OTHER -> "submit_error_code"

\* what the answer r to the request of the operation of stage s signals
\* ("none": the operation made no task-creation request)
CallSignal(s, r) ==
    IF s = 3 \/ (s = 2 /\ imagePrompt # "no_key") THEN SubmitSignal(r) ELSE "none"

\* _with_retry is entered: its locals, and the histories kept per call
WithRetryEnter ==
    /\ attempt' = 0
    /\ lastError' = None
    /\ opResult' = None
    /\ pollAttempt' = 0
    /\ taskId' = 0
    /\ calls' = 0
    /\ waits' = <<>>
    /\ submits' = 0
    /\ opFailSeen' = None
    /\ pollFailSeen' = FALSE
    /\ pollSuccessSeen' = FALSE
    /\ pollSleeps' = 0
    /\ queries' = 0
    /\ lastSignal' = "none"

retryVars == <<attempt, lastError, opResult, pollAttempt, taskId, calls, waits,
               submits, opFailSeen, pollFailSeen, pollSuccessSeen, pollSleeps, queries,
               lastSignal>>

pipelineVars ==
    <<jobs, stage, sceneIdx, sceneVideos, imagePrompt, cfgMaxRetries, maxRetriesArg,
      attempt, lastError, opResult, pollAttempt, taskId, calls, waits, submits,
      opFailSeen, pollFailSeen, pollSuccessSeen, pollSleeps, queries, lastSignal, extFailed,
      failedStage, raised>>

\* run_pipeline, lines 56-59
StartPipeline ==
    /\ pc = "start"
    /\ UNCHANGED <<media, caption, files, ret, detached, limiter>>
    /\ pc' = IF GetJob(jobs, jid) = None THEN "done" ELSE "stage_begin"
    /\ UNCHANGED <<jobs, stage, sceneIdx, sceneVideos, imagePrompt, cfgMaxRetries,
                   maxRetriesArg, retryVars, extFailed, failedStage, raised>>

\* the opening update of a stage and the code up to its first await; a stage
\* after the first fetches the job again and raises AttributeError when it is
\* gone; in stage 3 43 / total_scenes raises ZeroDivisionError outside the
\* stage's try
StageBegin ==
    /\ pc = "stage_begin"
    /\ UNCHANGED <<media, caption, files, ret, detached, limiter>>
    /\ LET updated == UpdateJob(jobs, jid, StageBeginPatch(stage)) IN
       IF stage >= 2 /\ GetJob(updated, jid) = None
       THEN /\ jobs' = SetError(updated, jid,
                         IF stage = 3 THEN NoneJobError(stage)
                         ELSE StageFailMessage(stage, 0, NoneJobError(stage)))
            /\ pc' = AfterError
            /\ failedStage' = stage
            /\ raised' = Some(NoneJobError(stage))
       ELSE IF stage = 3 /\ TotalScenes(updated[jid]) = 0
       THEN /\ jobs' = SetError(updated, jid, <<"division by zero">>)
            /\ pc' = AfterError
            /\ failedStage' = stage
            /\ raised' = Some(<<"division by zero">>)
       ELSE /\ jobs' = updated
            /\ pc' = AfterStageBegin(stage)
            /\ UNCHANGED <<failedStage, raised>>
    /\ sceneIdx' = 0
    /\ sceneVideos' = <<>>
    /\ WithRetryEnter
    /\ UNCHANGED <<stage, imagePrompt, cfgMaxRetries, maxRetriesArg, extFailed>>

\* await self.script_generator.generate_image_prompt(...): never raises; answers
\* the model's JSON, or its default when the call failed
ImagePrompt ==
    /\ pc = "image_prompt"
    /\ UNCHANGED <<media, caption, files, ret, detached, limiter>>
    /\ \E p \in {"llm", "default", "no_key"} :
          /\ imagePrompt' = p
          /\ extFailed' = (extFailed \/ p # "llm")
    /\ pc' = "op_call"
    /\ UNCHANGED <<jobs, stage, sceneIdx, sceneVideos, cfgMaxRetries, maxRetriesArg,
                   retryVars, failedStage, raised>>

\* the head of the scene loop of _stage_video_generation, lines 171-176
SceneBegin ==
    /\ pc = "scene_begin"
    /\ UNCHANGED <<media, caption, files, ret, detached, limiter>>
    /\ jobs' = UpdateJob(jobs, jid, ScenePatch(sceneIdx, TotalScenes(TaskJob)))
    /\ WithRetryEnter
    /\ pc' = "op_call"
    /\ UNCHANGED <<stage, sceneIdx, sceneVideos, imagePrompt, cfgMaxRetries,
                   maxRetriesArg, extFailed, failedStage, raised>>

\* return await func(), up to the submission of a task; except: last_error = e
OpCall ==
    /\ pc = "op_call"
    /\ UNCHANGED <<media, caption, files, ret, detached, limiter>>
    /\ \E r \in CallResponses(stage) :
       LET o == Call(stage, r) IN
          /\ lastSignal' = CallSignal(stage, r)
          /\ pc' = o.to
          /\ opResult' = o.result
          /\ lastError' = IF o.to = "op_raised" THEN o.error ELSE lastError
          /\ extFailed' = (extFailed \/ ~o.clean)
          /\ submits' = IF o.to = "poll" THEN submits + 1 ELSE submits
          /\ taskId' = IF o.to = "poll" THEN submits + 1 ELSE taskId
    /\ calls' = calls + 1
    /\ pollAttempt' = 0
    /\ pollFailSeen' = FALSE
    /\ pollSuccessSeen' = FALSE
    /\ pollSleeps' = 0
    /\ UNCHANGED <<jobs, stage, sceneIdx, sceneVideos, imagePrompt, cfgMaxRetries,
                   maxRetriesArg, attempt, waits, opFailSeen, queries, failedStage,
                   raised>>

\* one pass of the for loop of _poll_for_result; after the last pass, the raise below it
Poll ==
    /\ pc = "poll"
    /\ UNCHANGED <<media, caption, files, ret, detached, limiter>>
    /\ \E resp \in PollResponses(stage) :
          LET body == PollBody(stage, resp)
              b == PollExcept(body)
              made == pollAttempt + 1
          IN  /\ pollAttempt' = made
              /\ queries' = queries + 1
              /\ lastSignal' = Signal(stage, resp)
              /\ pollSleeps' = IF b.do = "sleep" THEN pollSleeps + 1 ELSE pollSleeps
              /\ pollFailSeen' = (pollFailSeen \/ FailureSignal(stage, resp))
              /\ pollSuccessSeen' = (pollSuccessSeen \/ SuccessFlag(stage, resp))
              /\ opFailSeen' =
                    IF opFailSeen = None
                       /\ (FailureSignal(stage, resp) \/ MalformedSuccess(stage, resp))
                    THEN Some(body.msg) ELSE opFailSeen
              /\ extFailed' = (extFailed \/ b.do # "return")
              /\ opResult' = IF b.do = "return" THEN Some(b.url) ELSE opResult
              /\ pc' = IF b.do = "return" THEN "op_ok"
                       ELSE IF b.do = "raise" \/ made >= PollMaxAttempts(stage)
                       THEN "op_raised" ELSE "poll"
              /\ lastError' = IF b.do = "raise" THEN b.msg
                              ELSE IF b.do = "sleep" /\ made >= PollMaxAttempts(stage)
                              THEN PollTimeout(stage) ELSE lastError
    /\ UNCHANGED <<jobs, stage, sceneIdx, sceneVideos, imagePrompt, cfgMaxRetries,
                   maxRetriesArg, attempt, taskId, calls, waits, submits,
                   failedStage, raised>>

\* the except clause of _with_retry: back off and go round again, or raise
\* last_error, which the stage wraps and run_pipeline hands to _handle_error
OpRaised ==
    /\ pc = "op_raised"
    /\ UNCHANGED <<media, caption, files, ret, detached, limiter>>
    /\ IF RetryAgain(attempt, EffectiveMaxRetries(maxRetriesArg, cfgMaxRetries))
       THEN /\ waits' = Append(waits, Backoff(attempt))
            /\ attempt' = attempt + 1
            /\ pc' = "op_call"
            /\ UNCHANGED <<jobs, failedStage, raised>>
       ELSE LET e == RaisedError(OperationName(stage, sceneIdx), attempt + 1, lastError) IN
            /\ raised' = Some(e)
            /\ UNCHANGED <<waits, attempt>>
            /\ IF stage = 0
               THEN /\ pc' = "rt_raised"
                    /\ UNCHANGED <<jobs, failedStage>>
               ELSE /\ jobs' = SetError(jobs, jid, StageFailMessage(stage, sceneIdx, e))
                    /\ pc' = AfterError
                    /\ failedStage' = stage
    /\ UNCHANGED <<stage, sceneIdx, sceneVideos, imagePrompt, cfgMaxRetries,
                   maxRetriesArg, lastError, opResult, pollAttempt, taskId, calls,
                   submits, opFailSeen, pollFailSeen, pollSuccessSeen, pollSleeps,
                   queries, extFailed>>
    /\ lastSignal' = "none"

\* _with_retry has returned; in stage 3 the clip is appended and back-filled into
\* its scene, and the loop goes on to the next scene
OpOk ==
    /\ pc = "op_ok"
    /\ UNCHANGED <<media, caption, files, ret, limiter>>
    /\ IF stage = 3
       THEN /\ sceneVideos' = Append(sceneVideos, opResult[1])
            /\ jobs' = IF jid \in DOMAIN jobs
                       THEN [jobs EXCEPT ![jid] = BackFill(@, sceneIdx, opResult[1])]
                       ELSE jobs
            /\ detached' = IF jid \in DOMAIN jobs THEN detached
                           ELSE Some(BackFill(detached[1], sceneIdx, opResult[1]))
            /\ IF sceneIdx + 1 < TotalScenes(TaskJob)
               THEN /\ sceneIdx' = sceneIdx + 1
                    /\ pc' = "scene_begin"
               ELSE /\ sceneIdx' = sceneIdx
                    /\ pc' = "stage_end"
       ELSE /\ pc' = IF stage = 0 THEN "rt_returned" ELSE "stage_end"
            /\ UNCHANGED <<jobs, sceneIdx, sceneVideos, detached>>
    /\ lastSignal' = "none"
    /\ UNCHANGED <<stage, imagePrompt, cfgMaxRetries, maxRetriesArg, attempt,
                   lastError, opResult, pollAttempt, taskId, calls, waits, submits,
                   opFailSeen, pollFailSeen, pollSuccessSeen, pollSleeps, queries,
                   extFailed, failedStage, raised>>

\* the closing update of a stage (in stage 5 after get_video_duration), then the next stage
StageEnd ==
    /\ pc = "stage_end"
    /\ UNCHANGED <<media, caption, files, ret, detached, limiter>>
    /\ \E d \in MeasuredDurations :
          /\ jobs' = UpdateJob(jobs, jid, StageEndPatch(stage, opResult[1], sceneVideos, d))
          /\ extFailed' = (extFailed \/ (stage = 5 /\ d = 0))
    /\ stage' = stage + 1
    /\ pc' = "stage_begin"
    /\ UNCHANGED <<sceneIdx, sceneVideos, imagePrompt, cfgMaxRetries, maxRetriesArg,
                   retryVars, failedStage, raised>>

\* what the upload does when Cloudinary is configured: the answer holds a
\* secure_url, or only a url, or the file cannot be opened, or the request
\* fails or times out
UploadResponses == {"secure_url", "url", "os_error", "http_error", "timeout"}

\* result.get("secure_url") or result.get("url")
CdnUrl(resp) ==
    IF resp = "secure_url" THEN <<"https://res.cloudinary.com/videeo/", jid>>
    ELSE <<"http://res.cloudinary.com/videeo/", jid>>

\* Path(video_url).name: the stages' paths lie in the one directory outputs/
FileName(path) ==
    IF path = CaptionedPath THEN <<"final_", jid, "_captioned.mp4">>
    ELSE IF path = StitchedPath THEN <<"video_", jid, ".mp4">>
    ELSE path

\* job.duration_seconds or 30
DurationOr30(duration_seconds) ==
    IF duration_seconds = None \/ duration_seconds[1] = 0 THEN 30
    ELSE duration_seconds[1]

\* _stage_upload_and_finalize after its opening update: the upload or the
\* local path, then set_complete; an error of the upload is wrapped and
\* handed to _handle_error
Finalize ==
    /\ pc = "finalize"
    /\ \E is_cloudinary_configured \in BOOLEAN, resp \in UploadResponses :
          LET job == TaskJob
              failed == is_cloudinary_configured /\ resp \notin {"secure_url", "url"}
              cdn_url == IF is_cloudinary_configured THEN CdnUrl(resp)
                         ELSE <<"/outputs/">> \o FileName(job.video_url)
          IN /\ IF failed
                THEN /\ jobs' = SetError(jobs, jid, StageFailMessage(stage, 0, <<resp>>))
                     /\ failedStage' = stage
                     /\ raised' = Some(<<resp>>)
                     /\ pc' = AfterError
                ELSE /\ jobs' = SetComplete(jobs, jid, cdn_url,
                                            DurationOr30(job.duration_seconds))
                     /\ pc' = "done"
                     /\ UNCHANGED <<failedStage, raised>>
             /\ extFailed' = (extFailed \/ failed)
    /\ UNCHANGED <<stage, sceneIdx, sceneVideos, imagePrompt, cfgMaxRetries,
                   maxRetriesArg, retryVars, media, caption, files, ret, detached, limiter>>

\* DELETE /jobs/{job_id} while run_pipeline is under way: delete_job takes the
\* record out of the store, the task keeps the object it has fetched
DeleteRunning ==
    /\ pc \notin {"done", "idle"}
    /\ jid \in DOMAIN jobs
    /\ detached' = Some(jobs[jid])
    /\ jobs' = DeleteJob(jobs, jid)
    /\ ret' = [op |-> "delete", id |-> jid, args |-> <<>>, value |-> TRUE]
    /\ UNCHANGED <<pc, stage, sceneIdx, sceneVideos, imagePrompt, cfgMaxRetries,
                   maxRetriesArg, retryVars, extFailed, failedStage, raised,
                   media, caption, files, limiter>>

\* GET /status/{job_id}: get_job, then the StatusResponse built from the
\* record, with no await in between; a missing job is answered 404 (None)
StatusResponse(job) ==
    [status |-> job.status, progress_percent |-> job.progress_percent,
     current_step |-> job.current_step, error_message |-> job.error_message]

GetStatus ==
    /\ ret = NoCall
    /\ ret' = [op |-> "status", id |-> jid, args |-> <<>>,
               value |-> IF GetJob(jobs, jid) = None THEN None
                         ELSE Some(StatusResponse(jobs[jid]))]
    /\ UNCHANGED <<pipelineVars, pc, media, caption, files, detached, limiter>>

\* the response is sent and the event loop goes on with another task
StatusReturn ==
    /\ ret # NoCall
    /\ ret' = NoCall
    /\ UNCHANGED <<pipelineVars, pc, media, caption, files, detached, limiter>>

---------------------------------------------------------------------------
(* pipeline/script_generator.py: the scenes of the answer, as generate takes  *)
(* them over.  The stages never read scene_number, so the pipeline above runs *)
(* on scripts numbered 1..n; here the script stage runs on its own with the   *)
(* numbers the backend chose.                                                 *)

\* Scene.scene_number: Field(ge=1, le=10)
MaxSceneNumber == 10

\* the "scene_number" values of the answer's scenes, in list order: up to
\* MaxScenes scenes, any small numbers
SceneNumberLists == UNION {[1..n -> 0..(MaxScenes + 1)] : n \in 0..MaxScenes}

\* Scene(scene_number=s["scene_number"], ...) for s in script_data["scenes"],
\* then VideoScript(scenes=scenes): the numbers are kept as they came
ParsedScript(numbers) ==
    [ character_description |-> "character",
      scenes |-> [k \in 1..Len(numbers) |->
                    [scene_number |-> numbers[k], video_url |-> NoneStr]] ]

\* generate on an answer that is valid JSON with all keys: pydantic rejects a
\* scene whose number is outside 1..10, nothing else is looked at
GenerateFromScenes(numbers) ==
    IF \E k \in 1..Len(numbers) : numbers[k] \notin 1..MaxSceneNumber
    THEN Raised(<<"ValidationError">>, FALSE)
    ELSE Returned(ParsedScript(numbers), TRUE)

\* return await func() of _with_retry in _stage_script_generation
ScriptOpCall ==
    /\ pc = "op_call"
    /\ stage = 1
    /\ \E numbers \in SceneNumberLists :
       LET o == GenerateFromScenes(numbers) IN
          /\ pc' = o.to
          /\ opResult' = o.result
          /\ lastError' = IF o.to = "op_raised" THEN o.error ELSE lastError
          /\ extFailed' = (extFailed \/ ~o.clean)
    /\ calls' = calls + 1
    /\ UNCHANGED <<jobs, stage, sceneIdx, sceneVideos, imagePrompt, cfgMaxRetries,
                   maxRetriesArg, attempt, pollAttempt, taskId, waits, submits,
                   opFailSeen, pollFailSeen, pollSuccessSeen, pollSleeps, queries, lastSignal,
                   failedStage, raised, media, caption, files, ret, detached, limiter>>

---------------------------------------------------------------------------
(* pipeline/video_stitcher.py and pipeline/caption_burner.py: the timing      *)
(* arithmetic.  The stitcher's times are counted in half seconds.  The caption *)
(* burner called for n scenes counts in n-ths of a half second, which makes    *)
(* total_duration / len(scenes) exact.                                         *)

\* 7.0 s and the 4.0 s fallback, in half seconds
ClipDurations == {2 * d : d \in Durations}
\* crossfade_duration: 0.5 s and the default 1.0 s
CrossfadeDurations == {1, 2}
\* scene_duration=6.0, the default of burn_captions
DefaultSceneDuration == 12
\* Scene.dialogue: a caption, an empty string, whitespace only
Dialogues == {"Hello", "", "  "}

\* scene.dialogue.strip()
Strip(text) == IF text = "  " THEN "" ELSE text
\* not scene.dialogue or not scene.dialogue.strip()
IsBlank(text) == text = "" \/ Strip(text) = ""

RECURSIVE SumTo(_, _)
\* sum(seq[0:k])
SumTo(seq, k) == IF k = 0 THEN 0 ELSE seq[k] + SumTo(seq, k - 1)

\* what ffmpeg measures on the stitched file: the clips overlap by one crossfade per transition
ComposedDuration(durations, crossfade) ==
    SumTo(durations, Len(durations)) - (Len(durations) - 1) * crossfade

\* an xfade chain without the crossfade taken off the offset
NextOffsetNoOverlap(cumulative_offset, duration, crossfade) == cumulative_offset + duration

\* cumulative_offset += durations[i-1] - crossfade_duration
NextOffset(cumulative_offset, duration, crossfade) == cumulative_offset + duration - crossfade

\* the scene_durations _build_drawtext_filter is handed by burn_captions, in n-ths
\* of a half second: the list given when it has one entry per scene, else an even
\* split of the measured total, else the default scene_duration
EffectiveDurations(given, total_duration, n) ==
    IF given # None /\ given[1] # <<>> /\ Len(given[1]) = n
    THEN [k \in 1..n |-> given[1][k] * n]
    ELSE IF total_duration > 0 /\ n > 0
    THEN [k \in 1..n |-> total_duration]
    ELSE [k \in 1..n |-> DefaultSceneDuration * n]

\* a loop that skips a blank caption before moving the clock
AdvanceTimeUnlessBlank(current_time, duration, text) ==
    IF IsBlank(text) THEN current_time ELSE current_time + duration

\* current_time += duration, for every scene
AdvanceTime(current_time, duration, text) == current_time + duration

\* enable='between(t,start,end)': ffmpeg's between holds at both ends
Enabled(w, t) == w.start_time <= t /\ t <= w.end_time

NoMedia ==
    [ durations |-> <<>>, crossfade |-> 0, i |-> 0, cumulative_offset |-> 0,
      offsets |-> <<>>, dialogues |-> <<>>, given |-> None, total_duration |-> 0,
      scene_durations |-> <<>>, k |-> 0, current_time |-> 0, windows |-> <<>> ]

\* the scene_durations arguments tried: none, the stitcher's list, a list one entry short
GivenDurations(durations) ==
    {None, Some(durations), Some(SubSeq(durations, 1, Len(durations) - 1))}

\* _process_ffmpeg_sync after the clips are standardized and measured: one clip
\* is renamed and returned, more clips enter the offset loop
StitchBegin ==
    /\ pc = "m_stitch"
    /\ pc' = IF Len(media.durations) = 1 THEN "m_burn" ELSE "m_xfade"
    /\ media' = [media EXCEPT !.i = 1, !.cumulative_offset = 0]
    /\ UNCHANGED <<pipelineVars, caption, files, ret, detached, limiter>>

\* one pass of "for i in range(1, n)", lines 272-279
XfadeStep ==
    /\ pc = "m_xfade"
    /\ LET next == NextOffset(media.cumulative_offset, media.durations[media.i],
                              media.crossfade)
       IN media' = [media EXCEPT !.cumulative_offset = next,
                                 !.offsets = Append(@, next),
                                 !.i = @ + 1]
    /\ pc' = IF media.i + 1 < Len(media.durations) THEN "m_xfade" ELSE "m_burn"
    /\ UNCHANGED <<pipelineVars, caption, files, ret, detached, limiter>>

\* burn_captions, lines 61-74: the duration is measured and the per-scene
\* durations are settled; _build_drawtext_filter starts with current_time = 0.0
BurnCaptionsBegin ==
    /\ pc = "m_burn"
    /\ \E measured \in {0, ComposedDuration(media.durations, media.crossfade)} :
          media' = [media EXCEPT
                      !.total_duration = measured,
                      !.scene_durations =
                          EffectiveDurations(media.given, measured, Len(media.dialogues)),
                      !.k = 1,
                      !.current_time = 0]
    /\ pc' = "m_drawtext"
    /\ UNCHANGED <<pipelineVars, caption, files, ret, detached, limiter>>

\* one pass of the loop of _build_drawtext_filter, lines 127-169
DrawtextStep ==
    /\ pc = "m_drawtext"
    /\ LET duration == media.scene_durations[media.k]
           text == media.dialogues[media.k]
           start_time == media.current_time
           end_time == start_time + duration
       IN media' = [media EXCEPT
                      !.current_time = AdvanceTime(media.current_time, duration, text),
                      !.windows = IF IsBlank(text) THEN @
                                  ELSE Append(@, [scene |-> media.k,
                                                  start_time |-> start_time,
                                                  end_time |-> end_time]),
                      !.k = @ + 1]
    /\ pc' = IF media.k < Len(media.dialogues) THEN "m_drawtext" ELSE "m_done"
    /\ UNCHANGED <<pipelineVars, caption, files, ret, detached, limiter>>

---------------------------------------------------------------------------
(* pipeline/caption_burner.py: _escape_text, and what the encoder makes of   *)
(* the text option it is handed.  A string is a sequence of one-character    *)
(* strings here.                                                             *)

BACKSLASH == "\\"
QUOTE == "'"
COLON == ":"
COMMA == ","

\* the characters the captions under test are made of
CaptionAlphabet == {"a", COLON, QUOTE, BACKSLASH, COMMA}

\* the non-empty strings of at most n characters
Captions(n) == UNION {[1..k -> CaptionAlphabet] : k \in 1..n}

\* str.replace(old, new) for a one-character old
RECURSIVE Replace(_, _, _)
Replace(text, old, new) ==
    IF text = <<>> THEN <<>>
    ELSE (IF Head(text) = old THEN new ELSE <<Head(text)>>)
         \o Replace(Tail(text), old, new)

\* _escape_text: four replacements, in this order
EscapeText(text) ==
    Replace(Replace(Replace(Replace(text,
        BACKSLASH, <<BACKSLASH, BACKSLASH>>),
        QUOTE, <<QUOTE, BACKSLASH, QUOTE, QUOTE>>),
        COLON, <<BACKSLASH, COLON>>),
        COMMA, <<BACKSLASH, COMMA>>)

\* _build_drawtext_filter: text='{text}': followed by the next option (one
\* character stands for fontfile=... and the options after it)
FilterArgs(text) == <<QUOTE>> \o text \o <<QUOTE, COLON, "f">>

\* the token the encoder's option parser reads from buf up to a character of
\* term: outside quotes a backslash keeps the next character, a quote opens a
\* literal section that the next quote (or the end of buf) closes
RECURSIVE GetToken(_, _, _)
GetToken(buf, term, quoted) ==
    IF buf = <<>> THEN <<>>
    ELSE LET c == Head(buf)
             rest == Tail(buf)
         IN IF quoted
            THEN IF c = QUOTE THEN GetToken(rest, term, FALSE)
                 ELSE <<c>> \o GetToken(rest, term, TRUE)
            ELSE IF c \in term THEN <<>>
            ELSE IF c = BACKSLASH /\ rest # <<>>
                 THEN <<Head(rest)>> \o GetToken(Tail(rest), term, FALSE)
            ELSE IF c = QUOTE THEN GetToken(rest, term, TRUE)
            ELSE <<c>> \o GetToken(rest, term, FALSE)

\* what ends a filter's arguments in a filtergraph, and an option's value
GraphTerm == {"[", "]", COMMA, ";"}
OptionTerm == {COLON}

\* drawtext's expansion of its text: a backslash stands for the character after it
RECURSIVE ExpandText(_)
ExpandText(text) ==
    IF text = <<>> THEN <<>>
    ELSE IF Head(text) = BACKSLASH /\ Len(text) > 1
         THEN <<text[2]>> \o ExpandText(Tail(Tail(text)))
         ELSE <<Head(text)>> \o ExpandText(Tail(text))

\* the text drawn for -vf drawtext=text='{escaped}':... : the filtergraph
\* parser reads the filter's arguments, the option parser reads the value of
\* text from them, drawtext expands it
Render(escaped) ==
    ExpandText(GetToken(GetToken(FilterArgs(escaped), GraphTerm, FALSE),
                        OptionTerm, FALSE))

NoCaption == [phase |-> "none", text |-> <<>>, escaped |-> <<>>, rendered |-> <<>>]
NoFiles == <<>>

\* text = self._escape_text(wrapped_text)
EscapeStep ==
    /\ caption.phase = "dialogue"
    /\ caption' = [caption EXCEPT !.phase = "escaped",
                                  !.escaped = EscapeText(caption.text)]
    /\ UNCHANGED <<pipelineVars, pc, media, files, ret, detached, limiter>>

\* _run_ffmpeg_sync: the encoder draws the caption
RenderStep ==
    /\ caption.phase = "escaped"
    /\ caption' = [caption EXCEPT !.phase = "rendered",
                                  !.rendered = Render(caption.escaped)]
    /\ UNCHANGED <<pipelineVars, pc, media, files, ret, detached, limiter>>

---------------------------------------------------------------------------
(* services/job_manager.py called on its own: create_job, get_job,            *)
(* update_job, set_error and delete_job in any order, on up to two jobs      *)

\* what f"vid_{uuid.uuid4().hex[:12]}" can give; create_job does not look the
\* id up in the store before it uses it
JobIds == {jid, "vid_2"}
Prompts == {"a prompt"}
SceneCounts == {1, 2}
AspectRatios == {"9:16"}

\* the JobState create_job builds, with the fields the pipeline never reads
NewJob(id, prompt, scene_count, aspect_ratio) ==
    LET base == NewJobState(scene_count)
    IN [f \in DOMAIN base \cup {"job_id", "prompt", "aspect_ratio"} |->
           CASE f = "job_id" -> id
             [] f = "prompt" -> prompt
             [] f = "aspect_ratio" -> aspect_ratio
             [] OTHER -> base[f]]

\* self._jobs[job_id] = job
CreateJob(store, id, prompt, scene_count, aspect_ratio) ==
    [i \in DOMAIN store \cup {id} |->
        IF i = id THEN NewJob(id, prompt, scene_count, aspect_ratio) ELSE store[i]]

\* the named parameters of update_job, each an Optional
NamedParams == {"status", "progress_percent", "current_step", "error_message"}
NoArgs ==
    [status |-> None, progress_percent |-> None, current_step |-> None,
     error_message |-> None, kwargs |-> <<>>]

\* the update_job calls tried: nothing supplied, named parameters, a declared
\* field through **kwargs, a declared and an undeclared field through **kwargs
UpdateCalls ==
    << NoArgs,
       [NoArgs EXCEPT !.status = Some(GENERATING_SCRIPT), !.progress_percent = Some(5)],
       [NoArgs EXCEPT !.progress_percent = Some(15),
                      !.kwargs = [script |-> Some(NewScript(1))]],
       [NoArgs EXCEPT !.kwargs = [video_url |-> <<"outputs/video.mp4">>,
                                  scene_durations |-> <<4>>]] >>

\* update_job that sets a named parameter even when it is None
UpdatePatchNoneSet(args) ==
    [f \in NamedParams \cup DOMAIN args.kwargs |->
        IF f \notin NamedParams THEN args.kwargs[f]
        ELSE IF args[f] = None THEN NoneStr ELSE args[f][1]]

\* what update_job goes on to set: each named parameter that is not None, and
\* every keyword of **kwargs (UpdateJob then keeps those the record declares)
UpdatePatch(args) ==
    LET named == {f \in NamedParams : args[f] # None}
    IN [f \in named \cup DOMAIN args.kwargs |->
           IF f \in named THEN args[f][1] ELSE args.kwargs[f]]

ErrorMessages == {<<"Script generation failed: ", "timeout">>}

\* everything but the store and the call made on it
storeFrame ==
    <<pc, stage, sceneIdx, sceneVideos, imagePrompt, cfgMaxRetries, maxRetriesArg,
      attempt, lastError, opResult, pollAttempt, taskId, calls, waits, submits,
      opFailSeen, pollFailSeen, pollSuccessSeen, pollSleeps, queries, lastSignal, extFailed,
      failedStage, raised, media, caption, files, detached, limiter>>

\* create_job
StoreCreate ==
    \E id \in JobIds, prompt \in Prompts, scene_count \in SceneCounts,
       aspect_ratio \in AspectRatios :
        /\ pc = "idle"
        /\ jobs' = CreateJob(jobs, id, prompt, scene_count, aspect_ratio)
        /\ ret' = [op |-> "create", id |-> id,
                   args |-> [prompt |-> prompt, scene_count |-> scene_count,
                             aspect_ratio |-> aspect_ratio],
                   value |-> Some(jobs'[id])]
        /\ UNCHANGED storeFrame

\* get_job
StoreGet ==
    \E id \in JobIds :
        /\ pc = "idle"
        /\ ret' = [op |-> "get", id |-> id, args |-> <<>>, value |-> GetJob(jobs, id)]
        /\ UNCHANGED <<jobs, storeFrame>>

\* update_job
StoreUpdate ==
    \E id \in JobIds, k \in DOMAIN UpdateCalls :
        /\ pc = "idle"
        /\ jobs' = UpdateJob(jobs, id, UpdatePatch(UpdateCalls[k]))
        /\ ret' = [op |-> "update", id |-> id, args |-> UpdateCalls[k],
                   value |-> GetJob(jobs', id)]
        /\ UNCHANGED storeFrame

\* set_error
StoreSetError ==
    \E id \in JobIds, error_message \in ErrorMessages :
        /\ pc = "idle"
        /\ jobs' = SetError(jobs, id, error_message)
        /\ ret' = [op |-> "set_error", id |-> id, args |-> error_message,
                   value |-> GetJob(jobs', id)]
        /\ UNCHANGED storeFrame

\* delete_job
StoreDelete ==
    \E id \in JobIds :
        /\ pc = "idle"
        /\ jobs' = IF id \in DOMAIN jobs THEN DeleteJob(jobs, id) ELSE jobs
        /\ ret' = [op |-> "delete", id |-> id, args |-> <<>>,
                   value |-> id \in DOMAIN jobs]
        /\ UNCHANGED storeFrame

---------------------------------------------------------------------------
(* pipeline/video_stitcher.py: the files of stitch_with_crossfade, for two    *)
(* jobs in the assembly stage at once.  Each run_pipeline has a VideoStitcher *)
(* of its own; all of them work in settings.temp_dir and settings.output_dir. *)
(* A file's content is <<job, k>>: (made from) clip k of that job; <<>>: no   *)
(* such file.                                                                 *)

\* the jobs whose pipeline tasks are in _stage_video_stitching together
StitchJobs == {jid, "vid_2"}

\* self.temp_dir / f"scene_{i+1}.mp4" and self.output_dir / f"std_scene_{i}.mp4"
\* are files.temp[i + 1] and files.std[i]; files.out[j] is
\* self.output_dir / f"video_{job_id}.mp4", the clips it was composed of
NewFiles(n) ==
    [temp |-> [k \in 1..MaxClips |-> <<>>],
     std  |-> [k \in 0..(MaxClips - 1) |-> <<>>],
     out  |-> [j \in StitchJobs |-> <<>>],
     task |-> [j \in StitchJobs |-> [phase |-> "download", i |-> 0, n |-> n[j]]]]

\* one pass of the download loop: await self._download_video(url, f"scene_{i+1}.mp4")
Download(j) ==
    LET t == files.task[j] IN
    /\ t.phase = "download"
    /\ \E ok \in BOOLEAN :
          IF ~ok
          THEN files' = [files EXCEPT !.task[j].phase = "raised"]
          ELSE files' = [files EXCEPT
                  !.temp[t.i + 1] = <<j, t.i + 1>>,
                  !.task[j].i = IF t.i + 1 = t.n THEN 0 ELSE t.i + 1,
                  !.task[j].phase = IF t.i + 1 = t.n THEN "standardize" ELSE "download"]
    /\ UNCHANGED <<pipelineVars, pc, media, caption, ret, detached, limiter>>

\* one pass of the loop of _process_ffmpeg_sync: ffmpeg reads local_videos[i]
\* and writes std_scene_{i}.mp4
Standardize(j) ==
    LET t == files.task[j] IN
    /\ t.phase = "standardize"
    /\ \E ok \in BOOLEAN :
          IF ~ok
          THEN files' = [files EXCEPT !.task[j].phase = "raised"]
          ELSE files' = [files EXCEPT
                  !.std[t.i] = files.temp[t.i + 1],
                  !.task[j].i = IF t.i + 1 = t.n THEN 0 ELSE t.i + 1,
                  !.task[j].phase = IF t.i + 1 = t.n THEN "stitch" ELSE "standardize"]
    /\ UNCHANGED <<pipelineVars, pc, media, caption, ret, detached, limiter>>

\* the end of _process_ffmpeg_sync: one clip is renamed to the output path,
\* more clips are read by the xfade run, which fails when one is missing
Stitch(j) ==
    LET t == files.task[j]
        inputs == [k \in 1..t.n |-> files.std[k - 1]]
    IN
    /\ t.phase = "stitch"
    /\ IF \E k \in 1..t.n : inputs[k] = <<>>
       THEN files' = [files EXCEPT !.task[j].phase = "raised"]
       ELSE IF t.n = 1
       THEN files' = [files EXCEPT !.out[j] = inputs, !.std[0] = <<>>,
                                   !.task[j].phase = "done"]
       ELSE files' = [files EXCEPT !.out[j] = inputs, !.task[j].phase = "done"]
    /\ UNCHANGED <<pipelineVars, pc, media, caption, ret, detached, limiter>>

---------------------------------------------------------------------------
(* main.py: rate_limit_middleware in front of POST /generate *)

\* if len(history) >= 5
RateLimit == 5
\* one_hour_ago = now - 3600
OneHour == 3600
\* seconds between two readings of the clock that differ
ClockStep == 1800

\* request.client.host, and what is asked for
ClientIps == {"10.0.0.1", "10.0.0.2"}
Routes == {"POST /generate", "GET /status"}

\* ip_request_history = {} and no request handled yet; admitted is a log of
\* the times at which the limiter let a POST /generate of each address pass
NoLimiter ==
    [ now |-> 0, ip_request_history |-> <<>>,
      admitted |-> [ip \in ClientIps |-> <<>>],
      requests |-> 0, created |-> 0,
      client_ip |-> "", route |-> "", status_code |-> 0 ]

\* ip_request_history.get(client_ip, [])
HistoryGet(ip_request_history, client_ip) ==
    IF client_ip \in DOMAIN ip_request_history THEN ip_request_history[client_ip]
    ELSE <<>>

\* [ts for ts in ... if ts > one_hour_ago]
RecentHistory(history, now) ==
    LET one_hour_ago == now - OneHour
    IN SelectSeq(history, LAMBDA ts : ts > one_hour_ago)

\* a limit that lets one more request pass
AtLimitLoose(history) == Len(history) > RateLimit

\* len(history) >= 5
AtLimit(history) == Len(history) >= RateLimit

\* ip_request_history[client_ip] = history
HistoryPut(ip_request_history, client_ip, history) ==
    [ip \in DOMAIN ip_request_history \cup {client_ip} |->
        IF ip = client_ip THEN history ELSE ip_request_history[ip]]

\* time passes between two requests
ClockTick ==
    /\ limiter.now < MaxTicks * ClockStep
    /\ limiter' = [limiter EXCEPT !.now = @ + ClockStep]
    /\ UNCHANGED <<pipelineVars, pc, media, caption, files, ret, detached>>

\* one request through rate_limit_middleware: a POST /generate over the limit
\* is answered 429 at once; any other request goes on to its handler, where a
\* POST /generate with a valid body creates a job (200) and one with an
\* invalid body is refused (422)
RateLimitMiddleware ==
    /\ limiter.requests < MaxRequests
    /\ \E client_ip \in ClientIps, route \in Routes, valid \in BOOLEAN :
          LET now == limiter.now
              history == RecentHistory(HistoryGet(limiter.ip_request_history, client_ip), now)
              seen == [limiter EXCEPT !.requests = @ + 1, !.client_ip = client_ip,
                                      !.route = route]
          IN IF route # "POST /generate"
             THEN limiter' = [seen EXCEPT !.status_code = 200]
             ELSE IF AtLimit(history)
             THEN limiter' = [seen EXCEPT !.status_code = 429]
             ELSE limiter' = [seen EXCEPT
                     !.ip_request_history = HistoryPut(@, client_ip, Append(history, now)),
                     !.admitted[client_ip] = Append(@, now),
                     !.created = IF valid THEN @ + 1 ELSE @,
                     !.status_code = IF valid THEN 200 ELSE 422]
    /\ UNCHANGED <<pipelineVars, pc, media, caption, files, ret, detached>>

---------------------------------------------------------------------------
(* Specifications *)

\* POST /generate has created the job and scheduled run_pipeline for it; the
\* requested scene count only goes into the prompt, the script's own length
\* (0..MaxScenes) is what the stages use
Init ==
    /\ jobs = (jid :> NewJobState(MaxScenes))
    /\ pc = "start"
    /\ stage = 1
    /\ sceneIdx = 0
    /\ sceneVideos = <<>>
    /\ imagePrompt = "llm"
    /\ cfgMaxRetries \in 0..MaxCfgRetries
    /\ maxRetriesArg = None
    /\ attempt = 0
    /\ lastError = None
    /\ opResult = None
    /\ pollAttempt = 0
    /\ taskId = 0
    /\ calls = 0
    /\ waits = <<>>
    /\ submits = 0
    /\ opFailSeen = None
    /\ pollFailSeen = FALSE
    /\ pollSuccessSeen = FALSE
    /\ pollSleeps = 0
    /\ queries = 0
    /\ lastSignal = "none"
    /\ extFailed = FALSE
    /\ failedStage = 0
    /\ raised = None
    /\ media = NoMedia
    /\ caption = NoCaption
    /\ files = NoFiles
    /\ ret = NoCall
    /\ detached = None
    /\ limiter = NoLimiter

Next ==
    \/ StartPipeline
    \/ StageBegin
    \/ ImagePrompt
    \/ SceneBegin
    \/ OpCall
    \/ Poll
    \/ OpRaised
    \/ OpOk
    \/ StageEnd

Spec == Init /\ [][Next]_vars

\* the event loop runs the pipeline task whenever it can take a step
FairSpec == Spec /\ WF_vars(Next)

\* _with_retry called on its own, with any max_retries argument and any setting
InitRetry ==
    /\ jobs = <<>>
    /\ pc = "op_call"
    /\ stage = 0
    /\ sceneIdx = 0
    /\ sceneVideos = <<>>
    /\ imagePrompt = "llm"
    /\ cfgMaxRetries \in 0..MaxCfgRetries
    /\ maxRetriesArg \in {None} \cup {Some(k) : k \in 0..MaxRetriesArg}
    /\ attempt = 0
    /\ lastError = None
    /\ opResult = None
    /\ pollAttempt = 0
    /\ taskId = 0
    /\ calls = 0
    /\ waits = <<>>
    /\ submits = 0
    /\ opFailSeen = None
    /\ pollFailSeen = FALSE
    /\ pollSuccessSeen = FALSE
    /\ pollSleeps = 0
    /\ queries = 0
    /\ lastSignal = "none"
    /\ extFailed = FALSE
    /\ failedStage = 0
    /\ raised = None
    /\ media = NoMedia
    /\ caption = NoCaption
    /\ files = NoFiles
    /\ ret = NoCall
    /\ detached = None
    /\ limiter = NoLimiter

NextRetry == OpCall \/ OpRaised \/ OpOk

SpecRetry == InitRetry /\ [][NextRetry]_vars

\* the stitcher's planner and the caption burner called on their own, for any
\* clips, crossfade, captions and scene_durations argument
InitMedia ==
    /\ jobs = <<>>
    /\ pc = "m_stitch"
    /\ stage = 0
    /\ sceneIdx = 0
    /\ sceneVideos = <<>>
    /\ imagePrompt = "llm"
    /\ cfgMaxRetries = 0
    /\ maxRetriesArg = None
    /\ attempt = 0
    /\ lastError = None
    /\ opResult = None
    /\ pollAttempt = 0
    /\ taskId = 0
    /\ calls = 0
    /\ waits = <<>>
    /\ submits = 0
    /\ opFailSeen = None
    /\ pollFailSeen = FALSE
    /\ pollSuccessSeen = FALSE
    /\ pollSleeps = 0
    /\ queries = 0
    /\ lastSignal = "none"
    /\ extFailed = FALSE
    /\ failedStage = 0
    /\ raised = None
    /\ \E n \in 1..MaxClips :
       \E durations \in [1..n -> ClipDurations] :
       \E crossfade \in CrossfadeDurations :
       \E dialogues \in [1..n -> Dialogues] :
       \E given \in GivenDurations(durations) :
          media = [NoMedia EXCEPT !.durations = durations, !.crossfade = crossfade,
                                  !.dialogues = dialogues, !.given = given]
    /\ caption = NoCaption
    /\ files = NoFiles
    /\ ret = NoCall
    /\ detached = None
    /\ limiter = NoLimiter

NextMedia == StitchBegin \/ XfadeStep \/ BurnCaptionsBegin \/ DrawtextStep

SpecMedia == InitMedia /\ [][NextMedia]_vars

\* no pipeline task, no _with_retry call and no encoder plan is under way
NoPipeline ==
    /\ pc = "idle"
    /\ stage = 0
    /\ sceneIdx = 0
    /\ sceneVideos = <<>>
    /\ imagePrompt = "llm"
    /\ cfgMaxRetries = 0
    /\ maxRetriesArg = None
    /\ attempt = 0
    /\ lastError = None
    /\ opResult = None
    /\ pollAttempt = 0
    /\ taskId = 0
    /\ calls = 0
    /\ waits = <<>>
    /\ submits = 0
    /\ opFailSeen = None
    /\ pollFailSeen = FALSE
    /\ pollSuccessSeen = FALSE
    /\ pollSleeps = 0
    /\ queries = 0
    /\ lastSignal = "none"
    /\ extFailed = FALSE
    /\ failedStage = 0
    /\ raised = None
    /\ media = NoMedia

\* one caption of at most MaxCaptionLen characters is escaped and drawn
InitEscape ==
    /\ NoPipeline
    /\ jobs = <<>>
    /\ caption \in {[NoCaption EXCEPT !.phase = "dialogue", !.text = t] :
                        t \in Captions(MaxCaptionLen)}
    /\ files = NoFiles
    /\ ret = NoCall
    /\ detached = None
    /\ limiter = NoLimiter

NextEscape == EscapeStep \/ RenderStep

SpecEscape == InitEscape /\ [][NextEscape]_vars

\* _stage_upload_and_finalize entered as run_pipeline enters it when the caption
\* stage has burnt the captions of a script of 1..MaxScenes scenes
InitFinalize ==
    /\ \E n \in 1..MaxScenes :
          jobs = (jid :> [NewJobState(MaxScenes) EXCEPT
                            !.status = ADDING_CAPTIONS,
                            !.progress_percent = 87,
                            !.current_step = <<"Adding captions...">>,
                            !.script = Some([NewScript(n) EXCEPT
                                !.scenes = [k \in 1..n |->
                                    [scene_number |-> k, video_url |-> ClipUrl(k - 1)]]]),
                            !.reference_image_url = RefImageUrl,
                            !.scene_videos = [k \in 1..n |-> ClipUrl(k - 1)],
                            !.video_url = StitchedPath])
    /\ pc = "stage_end"
    /\ stage = 5
    /\ sceneIdx = 0
    /\ sceneVideos = <<>>
    /\ imagePrompt = "llm"
    /\ cfgMaxRetries \in 0..MaxCfgRetries
    /\ maxRetriesArg = None
    /\ attempt = 0
    /\ lastError = None
    /\ opResult = Some(CaptionedPath)
    /\ pollAttempt = 0
    /\ taskId = 0
    /\ calls = 1
    /\ waits = <<>>
    /\ submits = 0
    /\ opFailSeen = None
    /\ pollFailSeen = FALSE
    /\ pollSuccessSeen = FALSE
    /\ pollSleeps = 0
    /\ queries = 0
    /\ lastSignal = "none"
    /\ extFailed = FALSE
    /\ failedStage = 0
    /\ raised = None
    /\ media = NoMedia
    /\ caption = NoCaption
    /\ files = NoFiles
    /\ ret = NoCall
    /\ detached = None
    /\ limiter = NoLimiter

NextFinalize == StageEnd \/ StageBegin \/ Finalize

SpecFinalize == InitFinalize /\ [][NextFinalize]_vars

\* run_pipeline, configured for no retry or one, with a DELETE /jobs/{job_id}
\* arriving at any moment before the task has ended; the event loop keeps
\* running the task
InitDelete == Init /\ cfgMaxRetries <= 1

NextDelete == Next \/ DeleteRunning

SpecDelete == InitDelete /\ [][NextDelete]_vars /\ WF_vars(Next)

\* run_pipeline from its start, or entered at the end of the caption stage,
\* through to set_complete
InitProgress == Init \/ InitFinalize

NextProgress == Next \/ Finalize

SpecProgress == InitProgress /\ [][NextProgress]_vars

\* _stage_script_generation alone, on any scene numbers the backend answers
InitScript == Init

NextScript ==
    \/ stage = 1 /\ StartPipeline
    \/ stage = 1 /\ StageBegin
    \/ ScriptOpCall
    \/ stage = 1 /\ OpRaised
    \/ stage = 1 /\ OpOk
    \/ stage = 1 /\ StageEnd

SpecScript == InitScript /\ [][NextScript]_vars

\* run_pipeline without retries, with GET /status/{job_id} requests handled
\* whenever the pipeline task is suspended; a handler runs to its response
\* before the event loop resumes the task
InitStatus == Init /\ cfgMaxRetries = 0

NextStatus ==
    \/ ret = NoCall /\ StartPipeline
    \/ ret = NoCall /\ StageBegin
    \/ ret = NoCall /\ ImagePrompt
    \/ ret = NoCall /\ SceneBegin
    \/ ret = NoCall /\ OpCall
    \/ ret = NoCall /\ Poll
    \/ ret = NoCall /\ OpRaised
    \/ ret = NoCall /\ OpOk
    \/ ret = NoCall /\ StageEnd
    \/ GetStatus
    \/ StatusReturn

SpecStatus == InitStatus /\ [][NextStatus]_vars

\* two pipeline tasks enter stitch_with_crossfade, each with 1..MaxClips clips
InitAssembly ==
    /\ NoPipeline
    /\ jobs = <<>>
    /\ caption = NoCaption
    /\ files \in {NewFiles(n) : n \in [StitchJobs -> 1..MaxClips]}
    /\ ret = NoCall
    /\ detached = None
    /\ limiter = NoLimiter

NextAssembly == \E j \in StitchJobs : Download(j) \/ Standardize(j) \/ Stitch(j)

SpecAssembly == InitAssembly /\ [][NextAssembly]_vars

\* the application after start-up: no request yet, then requests from two
\* addresses as time goes by
InitRate ==
    /\ NoPipeline
    /\ jobs = <<>>
    /\ caption = NoCaption
    /\ files = NoFiles
    /\ ret = NoCall
    /\ detached = None
    /\ limiter = NoLimiter

NextRate == ClockTick \/ RateLimitMiddleware

SpecRate == InitRate /\ [][NextRate]_vars

\* JobManager() as the application builds it, then any calls of its methods
InitStore ==
    /\ NoPipeline
    /\ jobs = <<>>
    /\ caption = NoCaption
    /\ files = NoFiles
    /\ ret = NoCall
    /\ detached = None
    /\ limiter = NoLimiter

NextStore ==
    \/ StoreCreate
    \/ StoreGet
    \/ StoreUpdate
    \/ StoreSetError
    \/ StoreDelete

SpecStore == InitStore /\ [][NextStore]_vars

---------------------------------------------------------------------------
(* Properties *)

Job == jobs[jid]
Terminal == {COMPLETE, ERROR}
IsSuffix(s, t) == Len(s) <= Len(t) /\ SubSeq(t, Len(t) - Len(s) + 1, Len(t)) = s
\* the max_retries the caller configured: the argument when given, else the setting
ConfiguredMaxRetries == IF maxRetriesArg = None THEN cfgMaxRetries ELSE maxRetriesArg[1]

\* C1: over any run of the pipeline, runs ending in ERROR included, every
\* progress_percent written to the job record is within 0..100 and no write
\* lowers the value the record held before.
C1_ProgressMonotone ==
    [][ /\ jobs'[jid].progress_percent >= jobs[jid].progress_percent
        /\ jobs'[jid].progress_percent \in 0..100 ]_vars

C1_Witness ==
    /\ pc = "done"
    /\ Job.status = ERROR
    /\ Job.progress_percent = 87
    /\ Len(Job.scene_videos) >= 2

\* C2: every change of the job's status made by run_pipeline is one step forward
\* along PENDING -> ... -> COMPLETE, or goes from a non-terminal status to ERROR.
C2_ForwardOnly ==
    [][ jobs'[jid].status # jobs[jid].status =>
          \/ jobs'[jid].status = ERROR /\ jobs[jid].status \notin Terminal
          \/ \E k \in 1..(Len(StatusOrder) - 1) :
                jobs[jid].status = StatusOrder[k] /\ jobs'[jid].status = StatusOrder[k + 1] ]_vars

C2_Witness ==
    /\ Job.status = ADDING_CAPTIONS
    /\ pc = "op_call"

\* C3: once the job's status is COMPLETE or ERROR, no later step of its pipeline
\* task changes its status, progress_percent, video location or error_message.
C3_TerminalAbsorbing ==
    [][ jobs[jid].status \in Terminal =>
          /\ jobs'[jid].status = jobs[jid].status
          /\ jobs'[jid].progress_percent = jobs[jid].progress_percent
          /\ jobs'[jid].video_url = jobs[jid].video_url
          /\ jobs'[jid].error_message = jobs[jid].error_message ]_vars

C3_Witness ==
    /\ pc = "done"
    /\ Job.status = ERROR
    /\ failedStage = 4

\* C4 (as claimed): a job none of whose external calls fails, with a script of
\* n >= 1 scenes, ends in COMPLETE with progress_percent 100, and not in ERROR.
C4_CleanRunCompletes ==
    (pc = "done" /\ ~extFailed /\ Job.script # None /\ TotalScenes(Job) >= 1) =>
        /\ Job.status = COMPLETE
        /\ Job.progress_percent = 100

\* C5: every job whose pipeline task is started eventually stops in COMPLETE or
\* ERROR, whatever the providers answer.
C5_Terminates == <>(pc = "done" /\ Job.status \in Terminal)

C5_Witness ==
    /\ pc = "done"
    /\ Job.status \in Terminal
    /\ lastError = PollTimeout(3)
    /\ attempt = cfgMaxRetries
    /\ cfgMaxRetries > 0

\* C6: when a stage fails, the job is in ERROR with an error_message that ends
\* with the message of the error that made the stage fail, the pipeline task has
\* stopped, and from then on nothing is written to the job: no update of a later
\* stage, no second run of an earlier one.
C6_FailureShortCircuits ==
    [][ /\ failedStage' # 0 =>
              /\ pc' = "done"
              /\ jobs'[jid].status = ERROR
              /\ raised' # None
              /\ IsSuffix(raised'[1], jobs'[jid].error_message)
        /\ failedStage # 0 => (jobs' = jobs /\ pc' = pc /\ stage' = stage) ]_vars

C6_Witness ==
    /\ failedStage = 3
    /\ sceneIdx = 1
    /\ pc = "done"
    /\ raised = Some(lastError)
    /\ Job.error_message = <<"Scene ", "2", " video generation failed: ">> \o lastError

\* C7: an operation that fails k times and then succeeds, k <= max_retries, is
\* not given up on: _with_retry returns its value after exactly k retries, having
\* waited 2^0, ..., 2^(k-1) in that order.
C7_RetryThenSuccess ==
    /\ pc = "rt_returned" =>
          /\ opResult = Some("value")
          /\ attempt = calls - 1
          /\ waits = [j \in 1..(calls - 1) |-> 2 ^ (j - 1)]
    /\ pc = "rt_raised" => calls > ConfiguredMaxRetries

C7_Witness ==
    /\ pc = "rt_returned"
    /\ maxRetriesArg = Some(2)
    /\ calls = 3
    /\ waits = <<1, 2>>

\* C8 (as claimed): an operation that fails on every attempt is invoked exactly
\* max_retries + 1 times, for every configured max_retries >= 0, with no wait
\* after the last failure, and the error raised is the last attempt's, annotated
\* with the operation name and the attempt count.
C8_ExhaustedRetries ==
    pc = "rt_raised" =>
        /\ calls = ConfiguredMaxRetries + 1
        /\ Len(waits) = calls - 1
        /\ raised = Some(OperationName(stage, sceneIdx)
                         \o <<" failed after ", NumStr(calls), " attempts: ">>
                         \o lastError)

\* C9 (as claimed): once a status answer has reported a provider failure, or a
\* success without a result, the generation is over: the error goes up unretried
\* (no further query, no new submission) and the job ends in ERROR carrying
\* that message.
C9_ProviderFailureNotRetried ==
    (stage \in {2, 3} /\ opFailSeen # None) =>
        \/ pc = "op_raised" /\ lastError = opFailSeen[1]
        \/ /\ pc = "done"
           /\ Job.status = ERROR
           /\ IsSuffix(opFailSeen[1], Job.error_message)

\* C10 (as claimed): a poll loop ends with the timeout error exactly when
\* max_attempts queries were made and none of their answers showed a success or
\* a failure signal.
C10_TimeoutOnlyWithoutSignal ==
    (pc = "op_raised" /\ stage \in {2, 3} /\ pollAttempt > 0) =>
        ( lastError = PollTimeout(stage)
          <=> /\ pollAttempt = PollMaxAttempts(stage)
              /\ ~pollFailSeen
              /\ ~pollSuccessSeen )

\* the url a poll of stage s hands back for the scene in hand
ResultUrl(s) == IF s = 2 THEN RefImageUrl ELSE ClipUrl(sceneIdx)
\* the messages of the raises inside the poll loops
TaskFailedMessage(s) ==
    IF s = 2 THEN <<"Image generation failed: ", "provider error">>
    ELSE <<"Video generation failed: ", "provider error">>
MalformedMessage(s) ==
    IF s = 2 THEN <<"No image URL in completed response">>
    ELSE <<"No video URL in completed response">>
IsProviderError(s, e) ==
    /\ Len(e) = 3
    /\ e[1] = (IF s = 2 THEN "Image generation failed: " ELSE "Video generation failed: ")
    /\ e[2] \notin {"absent", "200"}
\* answers the loops take for "not ready yet" besides a plain pending
Transient == {"network_error", "http_error", "http_404", "bad_json", "unknown"}

\* C11: a status answer that shows success with an extractable result ends the
\* poll loop with that result, on any attempt up to and including the last one
\* allowed; the loop does not go on and does not raise.
C11_SuccessEndsPoll ==
    lastSignal = "success_result" =>
        /\ pc = "op_ok"
        /\ opResult = Some(ResultUrl(stage))
        /\ pollAttempt <= (IF stage = 2 THEN ImageMaxAttempts ELSE VideoMaxAttempts)
        /\ pollSleeps = pollAttempt - 1

C11_Witness ==
    /\ lastSignal = "success_result"
    /\ stage = 3
    /\ pollAttempt = VideoMaxAttempts
    /\ pollSleeps = VideoMaxAttempts - 1
    /\ ~pollFailSeen
    /\ pc = "op_ok"

\* C12 (as claimed): a status answer with a provider error code (code present
\* and not 200) ends the poll at once with the provider's error; no further
\* query follows it.
C12_ErrorCodeEndsPoll ==
    lastSignal = "error_code" =>
        /\ pc = "op_raised"
        /\ IsProviderError(stage, lastError)

\* C13 (as claimed): a status answer with an explicit task failure ends the poll
\* at once with the task-failed error carrying the provider's message; the loop
\* does not sleep and query again.
C13_TaskFailureEndsPoll ==
    lastSignal = "task_failed" =>
        /\ pc = "op_raised"
        /\ lastError = TaskFailedMessage(stage)
        /\ pollSleeps = pollAttempt - 1

\* C14 (as claimed): a status answer with the success flag set and no result URL
\* in any known shape is a fatal malformed-response error ending the poll at
\* that attempt; it is not taken for pending.
C14_MalformedSuccessIsFatal ==
    lastSignal = "malformed" =>
        /\ pc = "op_raised"
        /\ lastError = MalformedMessage(stage)

\* C15: a network error, an HTTP error status (404 included), unparsable JSON
\* or an unknown status value counts as still pending: the loop sleeps one
\* interval and queries again (after the last allowed query it raises the
\* timeout), and no task is ever queried more than max_attempts times.
C15_TransientIsPending ==
    [][ /\ lastSignal' \in Transient =>
              /\ pollSleeps' = pollSleeps + 1
              /\ pollAttempt' = pollAttempt + 1
              /\ opResult' = opResult
              /\ taskId' = taskId
              /\ IF pollAttempt' < PollMaxAttempts(stage)
                 THEN pc' = "poll" /\ lastError' = lastError
                 ELSE pc' = "op_raised" /\ lastError' = PollTimeout(stage)
        /\ pollAttempt' <= PollMaxAttempts(stage') ]_vars

C15_Witness ==
    /\ lastSignal = "http_404"
    /\ stage = 3
    /\ pc = "poll"
    /\ pollAttempt = 1
    /\ pollSleeps = 1

SubmitSignals ==
    {"submit_ok", "submit_no_id", "submit_error_code_with_id", "submit_error_code",
     "submit_http_error", "submit_network_error", "submit_bad_json"}

\* C16 (as claimed): task creation returns a task id only for a success answer
\* that holds one; it fails, returning no id, when no id can be extracted or
\* the answer carries a non-success provider code, a task id beside it or not.
C16_SubmitFailsWithoutSuccess ==
    lastSignal \in SubmitSignals =>
        IF lastSignal = "submit_ok"
        THEN pc = "poll" /\ taskId # 0
        ELSE pc = "op_raised" /\ lastError # None

\* the place of clip j (1-based) in the stitched video: where its fade-in starts
ClipStart(j) == IF j = 1 THEN 0 ELSE media.offsets[j - 1]
NumScenes == Len(media.dialogues)
UsesGiven == media.given # None /\ media.given[1] # <<>> /\ Len(media.given[1]) = NumScenes
Windows == {media.windows[x] : x \in 1..Len(media.windows)}

\* C17: for N >= 2 clips the offset of transition i is
\* sum(d[0..i-1]) - i * crossfade, and there is one offset per transition.
C17_CrossfadeOffsets ==
    /\ \A t \in 1..Len(media.offsets) :
          media.offsets[t] = SumTo(media.durations, t) - t * media.crossfade
    /\ pc \in {"m_burn", "m_drawtext", "m_done"} =>
          Len(media.offsets) = Len(media.durations) - 1

C17_Witness ==
    /\ pc = "m_burn"
    /\ media.durations = <<14, 14, 14>>
    /\ media.crossfade = 1
    /\ media.offsets = <<13, 26>>

\* C18 (as claimed): with the stitcher's measured durations the caption windows
\* follow the stitched video: window j starts where clip j starts in it and the
\* last scene's window ends at its duration, sum(d) - (N-1) * crossfade.
C18_CaptionsFollowComposition ==
    (pc = "m_done" /\ UsesGiven /\ media.given = Some(media.durations)) =>
        \A w \in Windows :
            /\ w.start_time = NumScenes * ClipStart(w.scene)
            /\ w.scene = NumScenes =>
                  w.end_time = NumScenes * ComposedDuration(media.durations, media.crossfade)

\* C19 (as claimed): under even division of a measured total T > 0 the window
\* of scene i is [(i-1)*T/N, i*T/N) and the windows do not overlap: at no instant
\* are two captions shown.
C19_EvenDivisionPartitions ==
    (pc = "m_done" /\ ~UsesGiven /\ media.total_duration > 0) =>
        /\ \A w \in Windows :
              /\ w.start_time = (w.scene - 1) * media.total_duration
              /\ w.end_time = w.scene * media.total_duration
        /\ \A t \in 0..(NumScenes * media.total_duration) :
              Cardinality({w \in Windows : Enabled(w, t)}) <= 1

\* C20: a scene with an empty or whitespace-only caption gets no overlay and
\* still takes its time: every overlay starts at the sum of the durations of
\* all scenes before it, blank ones included, and lasts its scene's duration.
C20_BlankCaptionKeepsSlot ==
    /\ \A w \in Windows :
          /\ ~IsBlank(media.dialogues[w.scene])
          /\ w.start_time = SumTo(media.scene_durations, w.scene - 1)
          /\ w.end_time = w.start_time + media.scene_durations[w.scene]
    /\ pc = "m_done" =>
          /\ media.current_time = SumTo(media.scene_durations, NumScenes)
          /\ \A j \in 1..NumScenes :
                Cardinality({w \in Windows : w.scene = j})
                    = (IF IsBlank(media.dialogues[j]) THEN 0 ELSE 1)

C20_Witness ==
    /\ pc = "m_done"
    /\ media.dialogues = <<"Hello", "  ", "Hello">>
    /\ Len(media.windows) = 2
    /\ media.windows[2].scene = 3
    /\ media.windows[2].start_time = 2 * media.scene_durations[1]

---------------------------------------------------------------------------
(* Caption escaping *)

\* C21: the caption the encoder draws is the caption that was escaped: for
\* every string over colon, single quote, backslash, comma and a letter,
\* un-escaping the output of _escape_text as the encoder does gives the
\* string back
C21_EscapeRoundTrips ==
    caption.phase = "rendered" => caption.rendered = caption.text

---------------------------------------------------------------------------
(* The job record between assembly and captions *)

\* C22: once the assembly stage has succeeded the job record holds the measured
\* scene durations, one per clip, and the caption stage can read them from it
C22_DurationsStoredAndRead ==
    /\ Job.current_step = <<"Videos stitched successfully">> =>
          /\ "scene_durations" \in DOMAIN Job
          /\ Len(Job.scene_durations) = Len(Job.scene_videos)
    /\ (stage = 5 /\ raised # None) =>
          raised # Some(<<"'JobState' object has no attribute 'scene_durations'">>)

---------------------------------------------------------------------------
(* The job store *)

\* C23: delete_job of a stored id answers True, removes that record and no
\* other, and the id stays absent: get_job answers None for every id that is
\* not stored, and no call but a create_job that draws the id stores it again.
\* delete_job of an id that is not stored answers False and changes nothing
C23_Delete ==
    [][ /\ ret'.op = "delete" =>
              IF ret'.id \in DOMAIN jobs
              THEN /\ ret'.value = TRUE
                   /\ GetJob(jobs', ret'.id) = None
                   /\ DOMAIN jobs' = DOMAIN jobs \ {ret'.id}
                   /\ \A i \in DOMAIN jobs' : jobs'[i] = jobs[i]
              ELSE /\ ret'.value = FALSE
                   /\ jobs' = jobs
        /\ ret'.op = "get" =>
              /\ (ret'.value = None) <=> (ret'.id \notin DOMAIN jobs)
              /\ jobs' = jobs
        /\ \A i \in DOMAIN jobs' \ DOMAIN jobs : ret'.op = "create" /\ ret'.id = i
      ]_vars

C23_Witness ==
    /\ ret.op = "delete"
    /\ ret.value = TRUE
    /\ ret.id = jid
    /\ DOMAIN jobs = {"vid_2"}
    /\ jobs["vid_2"].script # None

C25_CreateFresh ==
    [][ ret'.op = "create" =>
          /\ ret'.id \notin DOMAIN jobs
          /\ DOMAIN jobs' = DOMAIN jobs \cup {ret'.id}
          /\ \A i \in DOMAIN jobs : jobs'[i] = jobs[i]
          /\ jobs'[ret'.id].status = PENDING
          /\ jobs'[ret'.id].progress_percent = 0
          /\ jobs'[ret'.id].error_message = None
          /\ jobs'[ret'.id].prompt = ret'.args.prompt
          /\ jobs'[ret'.id].scene_count = ret'.args.scene_count
          /\ jobs'[ret'.id].aspect_ratio = ret'.args.aspect_ratio
          /\ GetJob(jobs', ret'.id) = ret'.value
      ]_vars

\* C26: set_error of a stored job sets status ERROR and the message, and
\* leaves the progress and every artifact of the job as they were
C26_SetErrorFrame ==
    [][ (ret'.op = "set_error" /\ ret'.id \in DOMAIN jobs) =>
          /\ jobs'[ret'.id].status = ERROR
          /\ jobs'[ret'.id].error_message = ret'.args
          /\ \A f \in {"progress_percent", "script", "reference_image_url",
                       "scene_videos", "video_url"} :
                jobs'[ret'.id][f] = jobs[ret'.id][f]
          /\ \A i \in DOMAIN jobs \ {ret'.id} : jobs'[i] = jobs[i]
      ]_vars

C26_Witness ==
    /\ ret.op = "set_error"
    /\ ret.id \in DOMAIN jobs
    /\ jobs[ret.id].status = ERROR
    /\ jobs[ret.id].progress_percent = 15
    /\ jobs[ret.id].script # None

---------------------------------------------------------------------------
(* Completion, and deletion under way *)

C28_DeletedStaysAbsent ==
    /\ [](detached # None => GetJob(jobs, jid) = None)
    /\ <>(pc = "done")

C28_Witness ==
    /\ pc = "done"
    /\ detached # None
    /\ jid \notin DOMAIN jobs
    /\ detached[1].status = GENERATING_VIDEOS
    /\ detached[1].script[1].scenes[1].video_url = ClipUrl(0)
    /\ failedStage = 4
    /\ raised = Some(NoneJobError(4))

---------------------------------------------------------------------------
(* Order of the stages and of the scenes *)

\* C29: the task is in one stage at a time: it enters stage s+1 only when the
\* work of stage s has returned.  In the video stage a scene's task is
\* submitted only when every earlier scene has delivered its clip, the stage
\* waits for that task (the generation returns only from the poll that found
\* its result), and only then moves to the next scene
C29_Sequential ==
    [][ /\ stage' # stage =>
              (pc = "stage_end" /\ pc' = "stage_begin" /\ stage' = stage + 1)
        /\ (stage = 3 /\ submits' = submits + 1) =>
              /\ pc = "op_call" /\ pc' = "poll"
              /\ taskId' = submits'
              /\ Len(sceneVideos) = sceneIdx
        /\ (stage = 3 /\ pc' = "op_ok") =>
              (pc = "poll" /\ lastSignal' = "success_result")
        /\ (stage = 3 /\ sceneVideos' # sceneVideos) =>
              (pc = "op_ok" /\ sceneVideos' = Append(sceneVideos, opResult[1]))
        /\ (stage = 3 /\ sceneIdx' # sceneIdx) =>
              (pc = "op_ok" /\ sceneIdx' = sceneIdx + 1 /\ Len(sceneVideos') = sceneIdx')
      ]_vars

C29_Witness ==
    /\ stage = 3
    /\ pc = "poll"
    /\ sceneIdx = 1
    /\ sceneVideos = <<ClipUrl(0)>>
    /\ taskId = 1
    /\ Job.script[1].scenes[1].video_url = ClipUrl(0)

---------------------------------------------------------------------------
(* Two jobs in the assembly stage *)

\* C30: whatever the interleaving of two jobs in the assembly stage, a job's
\* composed video is made of that job's own clips, in order
C30_OwnClipsOnly ==
    \A j \in StitchJobs :
        files.task[j].phase = "done" =>
            files.out[j] = [k \in 1..files.task[j].n |-> <<j, k>>]

---------------------------------------------------------------------------
(* What a status reader sees *)

\* the stage a status belongs to (0: PENDING)
StageOfStatus(status) == (CHOOSE k \in 1..Len(StatusOrder) : StatusOrder[k] = status) - 1

\* the stage whose updates write the progress p: the last one opening at p or below
StageOfProgress(p) ==
    CHOOSE s \in 0..6 :
        /\ s = 0 \/ StageBeginPatch(s).progress_percent <= p
        /\ \A t \in (s + 1)..6 : StageBeginPatch(t).progress_percent > p

\* a value the operation of stage s returns, for the closing update's text
EndResult(s) ==
    CASE s = 1 -> NewScript(0)
      [] s = 2 -> RefImageUrl
      [] s = 4 -> StitchReturn(2, <<>>)
      [] OTHER -> CaptionedPath

\* how the step texts written by stage s begin
StepHeads(s) ==
    CASE s = 0 -> {Head(NewJobState(1).current_step)}
      [] s = 6 -> {Head(StageBeginPatch(s).current_step)}
      [] OTHER -> {Head(StageBeginPatch(s).current_step),
                   Head(StageEndPatch(s, EndResult(s), <<>>, 0).current_step)}
                  \cup (IF s = 3 THEN {Head(ScenePatch(0, 1).current_step)} ELSE {})

StageOfStep(current_step) == CHOOSE s \in 0..6 : Head(current_step) \in StepHeads(s)

\* C31: a status response never pairs the status of a stage with a progress
\* or a step text written by an earlier stage: the three are of one update
C31_ReaderSeesWholeUpdate ==
    (ret.op = "status" /\ ret.value # None /\ ret.value[1].status \notin Terminal) =>
        LET r == ret.value[1] IN
        /\ StageOfProgress(r.progress_percent) >= StageOfStatus(r.status)
        /\ StageOfStep(r.current_step) >= StageOfStatus(r.status)

C31_Witness ==
    /\ ret.op = "status"
    /\ ret.value # None
    /\ ret.value[1].status = GENERATING_VIDEOS
    /\ ret.value[1].progress_percent = SceneProgress(1, 2)
    /\ pc = "poll"

---------------------------------------------------------------------------
(* The error message and the ERROR status *)

\* C32: in every state of a job run by the pipeline, error_message is set
\* exactly when the status is ERROR
C32_ErrorMessageIffError ==
    (Job.error_message # None) <=> (Job.status = ERROR)

C32_Witness ==
    /\ pc = "done"
    /\ failedStage = 2
    /\ Job.status = ERROR
    /\ Job.error_message = StageFailMessage(2, 0, raised[1])
    /\ Job.error_message # None

---------------------------------------------------------------------------
(* Progress breakpoints *)

\* C33: the closing update of stages 1 to 5 leaves progress_percent at 15, 25,
\* 70, 85 and 95, set_complete leaves it at 100, and the update before scene i
\* (0-based) of n writes the floor of 27 + i * 43 / n, a value in 27..69
C33_Breakpoints ==
    [][ /\ pc = "stage_end" =>
              jobs'[jid].progress_percent = <<15, 25, 70, 85, 95>>[stage]
        /\ (pc = "finalize" /\ jobs'[jid].status = COMPLETE) =>
              jobs'[jid].progress_percent = 100
        /\ pc = "scene_begin" =>
              LET p == jobs'[jid].progress_percent
                  n == TotalScenes(jobs[jid])
              IN /\ n * (p - 27) <= 43 * sceneIdx
                 /\ 43 * sceneIdx < n * (p - 27 + 1)
                 /\ p \in 27..69
      ]_vars

C33_Witness ==
    /\ pc = "stage_begin"
    /\ stage = 4
    /\ Job.progress_percent = 70
    /\ Job.status = GENERATING_VIDEOS
    /\ Len(Job.scene_videos) = MaxScenes

---------------------------------------------------------------------------
(* The upload and the local path *)

\* C34 (as claimed): the finalize stage of a captioned job always ends in
\* COMPLETE, never in ERROR, with the video location the uploaded file's URL
\* or, when there is none, the local file
C34_UploadFallback ==
    (stage = 6 /\ pc = "done") =>
        /\ Job.status = COMPLETE
        /\ Job.error_message = None
        /\ Job.video_url \in {CdnUrl("secure_url"), CdnUrl("url"),
                             <<"/outputs/">> \o FileName(CaptionedPath)}

---------------------------------------------------------------------------
(* Scene ordinals *)

\* C35 (as claimed): the scenes of a script attached to a job are numbered
\* 1, 2, ..., N in list order
C35_OrdinalsContiguous ==
    Job.script # None =>
        \A k \in 1..TotalScenes(Job) : Job.script[1].scenes[k].scene_number = k

---------------------------------------------------------------------------
(* What the composer returns *)

\* C36 (as claimed): for any number of clips, one included, the assembly stage
\* leaves the job's video location at the full path of the composed file
C36_ComposedPathStored ==
    (Job.status = ASSEMBLING_VIDEO /\ Job.progress_percent = 85) =>
        Job.video_url = StitchedPath

---------------------------------------------------------------------------
(* The instants at which an overlay is drawn *)

\* C37 (as claimed): the overlay of a scene is drawn at t exactly when
\* start <= t < end, so no two overlays are drawn at one instant, the
\* instants where one scene ends and the next begins included
C37_HalfOpenWindows ==
    \A t \in 0..media.current_time :
        /\ \A w \in Windows :
              Enabled(w, t) <=> (w.start_time <= t /\ t < w.end_time)
        /\ \A v, w \in Windows :
              (Enabled(v, t) /\ Enabled(w, t)) => v = w

---------------------------------------------------------------------------
(* Requests sent to the video backend for one scene *)

\* C38: for one scene the video backend gets at most max_retries + 1 task
\* creation requests and at most (max_retries + 1) * max_attempts status
\* queries; a poll loop is entered only from a submission made by the same
\* invocation, and every query of the loop names the task of that submission
C38_BoundedRequests ==
    /\ []((stage = 3 /\ pc # "stage_begin") =>
            /\ calls <= cfgMaxRetries + 1
            /\ submits <= calls
            /\ queries <= (cfgMaxRetries + 1) * VideoMaxAttempts
            /\ pc = "poll" => (taskId = submits /\ calls = attempt + 1))
    /\ [][ (stage = 3 /\ pc # "stage_begin") =>
              /\ (pc # "poll" /\ pc' = "poll") =>
                    (pc = "op_call" /\ submits' = submits + 1 /\ taskId' = submits')
              /\ queries' > queries =>
                    (pc = "poll" /\ queries' = queries + 1 /\ taskId' = taskId)
              /\ (pc = "op_raised" /\ pc' = "op_call") => attempt' = attempt + 1
         ]_vars

C38_Witness ==
    /\ stage = 3
    /\ pc = "op_raised"
    /\ cfgMaxRetries = 1
    /\ attempt = 1
    /\ calls = 2
    /\ submits = 2
    /\ taskId = 2
    /\ queries = 2 * VideoMaxAttempts

---------------------------------------------------------------------------
(* The clips of a job that has reached the assembly stage *)

\* C39: from ASSEMBLING_VIDEO on (an ERROR of stage 4 or later included) the
\* record's scene_videos has one entry per scene of the script, entry i is
\* the clip back-filled into scene i, and scene_videos is written in one
\* update, when the scene loop has produced every clip
C39_ClipsMatchScenes ==
    /\ [](( \/ Job.status \in {ASSEMBLING_VIDEO, ADDING_CAPTIONS, COMPLETE}
            \/ (Job.status = ERROR /\ failedStage >= 4) ) =>
            /\ Len(Job.scene_videos) = TotalScenes(Job)
            /\ \A k \in 1..TotalScenes(Job) :
                  /\ Job.script[1].scenes[k].video_url = Job.scene_videos[k]
                  /\ Job.scene_videos[k] = ClipUrl(k - 1))
    /\ [][ jobs'[jid].scene_videos # jobs[jid].scene_videos =>
              /\ stage = 3
              /\ pc = "stage_end"
              /\ jobs[jid].scene_videos = <<>>
              /\ Len(jobs'[jid].scene_videos) = TotalScenes(jobs[jid])
         ]_vars

C39_Witness ==
    /\ pc = "done"
    /\ Job.status = ERROR
    /\ failedStage = 5
    /\ TotalScenes(Job) = 2
    /\ Job.scene_videos = <<ClipUrl(0), ClipUrl(1)>>
    /\ Job.script[1].scenes[2].video_url = ClipUrl(1)

---------------------------------------------------------------------------
(* The rate limiter *)

\* the requests of ip the limiter let pass at a time in [from, from + OneHour)
AdmittedWithin(ip, from) ==
    Cardinality({k \in 1..Len(limiter.admitted[ip]) :
                    /\ from <= limiter.admitted[ip][k]
                    /\ limiter.admitted[ip][k] < from + OneHour})

\* the requests of ip let pass less than one hour before now
AdmittedLastHour(ip) ==
    Cardinality({k \in 1..Len(limiter.admitted[ip]) :
                    limiter.now - limiter.admitted[ip][k] < OneHour})

\* C40: of every address at most 5 POST /generate requests are let pass in any
\* hour; a POST /generate is answered 429 exactly when 5 requests of its
\* address were let pass less than one hour before, it then creates no job
\* and leaves no trace in the limiter
C40_RateLimit ==
    /\ [](\A ip \in ClientIps : \A k \in 1..Len(limiter.admitted[ip]) :
             AdmittedWithin(ip, limiter.admitted[ip][k]) <= RateLimit)
    /\ [][ (limiter'.requests # limiter.requests /\ limiter'.route = "POST /generate") =>
              /\ (limiter'.status_code = 429) <=> (AdmittedLastHour(limiter'.client_ip) >= RateLimit)
              /\ limiter'.status_code = 429 =>
                    /\ limiter'.created = limiter.created
                    /\ limiter'.admitted = limiter.admitted
                    /\ limiter'.ip_request_history = limiter.ip_request_history
              /\ limiter'.status_code # 429 =>
                    limiter'.admitted[limiter'.client_ip]
                        = Append(limiter.admitted[limiter'.client_ip], limiter.now)
         ]_vars

C40_Witness ==
    /\ limiter.status_code = 429
    /\ limiter.route = "POST /generate"
    /\ limiter.client_ip = "10.0.0.1"
    /\ limiter.now = ClockStep
    /\ limiter.admitted["10.0.0.1"] = [k \in 1..RateLimit |-> IF k = 1 THEN 0 ELSE ClockStep]
    /\ limiter.created = RateLimit - 1

====
